---- MODULE Spec2Model ----
(***************************************************************************)
(* Reminder lifecycle of Reminder-Personal: the dispatcher                 *)
(* (ReminderLogic.process_reminder_request), the escalation tick           *)
(* (check_and_send_escalations) and the inbound confirmation handler       *)
(* (MessageProcessor._process_confirmation) running as concurrent request  *)
(* handlers over the tables of database.py.                                *)
(*                                                                         *)
(* Time is counted in minutes since 00:00 of day 0.  The variable clock is *)
(* the wall clock of Config.TIMEZONE (datetime.now(israel_tz)); a reading  *)
(* of datetime.now(timezone.utc) is UtcOffset behind it where the code     *)
(* takes a calendar date from it.  The database server's NOW(), CURDATE()  *)
(* and CURRENT_TIMESTAMP are taken to read the same wall clock, and        *)
(* created_at is taken to parse to a value comparable with the current     *)
(* time.                                                                   *)
(* Every database call is one atomic step; the gateway and text-generation *)
(* calls separate the steps of a handler.                                  *)
(***************************************************************************)
EXTENDS Integers, Sequences, FiniteSets, TLC

VARIABLES clock, start, customers, daily_reminders, workers, openai_enabled,
          ever_terminal, response_message, app, notifications, processed, api_response

vars == <<clock, start, customers, daily_reminders, workers, openai_enabled, ever_terminal,
          response_message, app, notifications, processed, api_response>>

(***************************************************************************)
(* Bounds of the model.                                                    *)
(***************************************************************************)
NumWorkers == 2
MaxSteps == 5
MaxSpan == 1
MaxCustomers == 2
MaxNotifications == 2
MaxStarts == 2
MaxTests == 1
MaxReminders == 2

(***************************************************************************)
(* Program constants.                                                      *)
(***************************************************************************)
EscalationMinutes == 30
CutoffHours == 2
MaxEscalationLevel == 4
LegacyReminderHour == 20
LegacyWindowHours == 2

DayMinutes == 24 * 60
\* Asia/Jerusalem standard time is two hours ahead of UTC.
UtcOffset == 2 * 60
Step == EscalationMinutes
StartClocks == {DayMinutes - 5 * Step, DayMinutes - 2 * Step}
LifecycleStarts == {DayMinutes - 2 * Step, DayMinutes - Step}

NULL == 0 - 1
NoText == <<>>
NoMessage == [level |-> 0, text |-> "none"]
None == "None"

Workers == 1..NumWorkers
InitialIds == {1, 2}

(***************************************************************************)
(* Clock readings.                                                         *)
(***************************************************************************)
\* clock is the wall clock of Config.TIMEZONE, read by datetime.now(israel_tz).
DateOf(t) == t \div DayMinutes
HHMM(t) == t % DayMinutes
\* datetime.now(timezone.utc).date()
utc_date(t) == DateOf(t - UtcOffset)
Abs(x) == IF x < 0 THEN 0 - x ELSE x

(***************************************************************************)
(* Sequence helpers.                                                       *)
(***************************************************************************)
RECURSIVE SetToDescSeq(_)
SetToDescSeq(S) ==
    IF S = {} THEN <<>>
    ELSE LET m == CHOOSE x \in S : \A y \in S : y <= x
         IN <<m>> \o SetToDescSeq(S \ {m})

RECURSIVE SetToAscSeq(_)
SetToAscSeq(S) ==
    IF S = {} THEN <<>>
    ELSE LET m == CHOOSE x \in S : \A y \in S : x <= y
         IN <<m>> \o SetToAscSeq(S \ {m})

\* JSON objects: the objects of a set, and each of them with one more key.
WithField(bodies, key, values) ==
    bodies \cup {[k \in DOMAIN d \cup {key} |-> IF k = key THEN v ELSE d[k]] :
                    d \in bodies, v \in values}

(***************************************************************************)
(* Tables.  customers and daily_reminders: sequences of rows, the          *)
(* AUTO_INCREMENT id of a row is its index.  A NULL name is the empty      *)
(* text.                                                                   *)
(***************************************************************************)
CustomerIds == DOMAIN customers
RowIds == 1..Len(daily_reminders)

IdleWorker ==
    [kind |-> "idle", pc |-> "idle", span |-> 0,
     times |-> <<>>, is_missed |-> FALSE, current_time |-> NULL,
     reminder_message |-> "", custs |-> <<>>, idx |-> 0,
     existed |-> {}, sentTo |-> {},
     cands |-> <<>>, terminal_at_start |-> {},
     sent_message |-> NoMessage, next_time |-> NULL,
     customer_id |-> 0, today |-> NULL, text |-> NoText,
     phone_number |-> NoText, name |-> NoText, reminder_time |-> NoText, sender |-> 0,
     generation |-> "none",
     ai_output |-> [kind |-> "none", body |-> <<>>],
     analysis |-> [confirmed |-> FALSE, reply |-> "none"],
     days_back |-> 0, batch |-> <<>>, receiptId |-> 0,
     stats |-> [total |-> 0, confirmed |-> 0, pending |-> 0, confirmation_rate |-> <<0, 1>>]]

\* UNIQUE KEY unique_customer_date (customer_id, reminder_date)
unique_customer_date(rows, customer_id, reminder_date) ==
    \A i \in 1..Len(rows) :
        ~(rows[i].customer_id = customer_id /\ rows[i].reminder_date = reminder_date)

\* Database.get_customers_by_reminder_time
get_customers_by_reminder_time(reminder_time) ==
    SetToDescSeq({c \in CustomerIds :
        customers[c].is_active /\ customers[c].reminder_time = reminder_time})

\* Database.get_customers(active_only=True)
get_customers ==
    SetToDescSeq({c \in CustomerIds : customers[c].is_active})

\* Database.get_all_reminder_times
get_all_reminder_times ==
    SetToAscSeq({customers[c].reminder_time : c \in {d \in CustomerIds : customers[d].is_active}})

\* Database.get_last_reminder_date: save_reminder never fills scheduled_date,
\* so the column read here is always NULL.
get_last_reminder_date == NULL

\* Database.create_daily_reminder: the INSERT, with the column defaults.
NewDailyReminder(id, customer_id, reminder_date, reminder_time, message_sent, now) ==
    [id |-> id,
     customer_id |-> customer_id,
     reminder_date |-> reminder_date,
     reminder_time |-> reminder_time,
     message_sent |-> message_sent,
     confirmed |-> FALSE,
     confirmation_message |-> NoText,
     confirmation_time |-> NULL,
     escalation_level |-> 0,
     next_escalation_time |-> NULL,
     escalation_messages_sent |-> <<>>,
     created_at |-> now]

InsertAllowed(customer_id, reminder_date) ==
    unique_customer_date(daily_reminders, customer_id, reminder_date)

\* The ways a call of the text-generation collaborator can end badly.
Failures == {"error", "timeout"}

\* What becomes of the collaborator's call for a reminder text.
ReminderOutcomes ==
    IF openai_enabled THEN {"ai_reminder"} \cup Failures ELSE {"disabled"}

\* generate_ai_reminder_message that hands the failure on as an empty text.
generate_ai_reminder_message_no_fallback(outcome) ==
    IF ~openai_enabled THEN "REMINDER_MESSAGE"
    ELSE IF outcome \in Failures THEN ""
    ELSE outcome

\* ReminderLogic.generate_ai_reminder_message
generate_ai_reminder_message(outcome) ==
    IF ~openai_enabled THEN "REMINDER_MESSAGE"
    ELSE IF outcome \in Failures THEN "REMINDER_MESSAGE"
    ELSE outcome

ReminderMessages ==
    {generate_ai_reminder_message(outcome) : outcome \in ReminderOutcomes}

\* The globals of app.py before any start, with the job list of the schedule
\* module and the reminders table: nothing runs, nothing is registered.
AppStopped ==
    [app_running |-> FALSE, threads |-> <<>>, jobs |-> <<>>, schedulers |-> <<>>,
     reminders |-> <<>>]

InitialCustomers ==
    [c \in InitialIds |->
        [phone_number |-> c,
         name |-> NoText,
         reminder_time |-> IF c = 1 THEN DayMinutes - Step ELSE LegacyReminderHour * 60,
         is_active |-> TRUE]]

Init ==
    /\ clock \in StartClocks
    /\ start = clock
    /\ customers = InitialCustomers
    /\ daily_reminders = <<>>
    /\ workers = [w \in Workers |-> IdleWorker]
    /\ openai_enabled \in BOOLEAN
    /\ ever_terminal = {}
    /\ response_message = None
    /\ app = AppStopped
    /\ notifications = {}
    /\ processed = <<>>
    /\ api_response = 0

\* The state a dispatch leaves behind: customer 1 has today's record, created
\* by the customer's own slot at 23:00 or at 23:30; template texts only.  The
\* hour and a half that follows is looked at.
InitLifecycle ==
    /\ clock \in LifecycleStarts
    /\ start = clock - (MaxSteps - 3) * Step
    /\ customers = [InitialCustomers EXCEPT ![1].reminder_time = HHMM(clock)]
    /\ openai_enabled = FALSE
    /\ daily_reminders =
          <<NewDailyReminder(1, 1, DateOf(clock), HHMM(clock), "REMINDER_MESSAGE", clock)>>
    /\ workers = [w \in Workers |-> IdleWorker]
    /\ ever_terminal = {}
    /\ response_message = None
    /\ app = AppStopped
    /\ notifications = {}
    /\ processed = <<>>
    /\ api_response = 0

\* A record that the ladder has finished with: confirmed, or given up.
GaveUp(r, now) ==
    /\ ~r.confirmed
    /\ (r.escalation_level >= MaxEscalationLevel \/ now - r.created_at > CutoffHours * 60)

Terminal(r, now) == r.confirmed \/ GaveUp(r, now)

\* History: the records that have been terminal at some moment so far.
EverTerminal(rows, now) ==
    ever_terminal \cup {i \in 1..Len(rows) : Terminal(rows[i], now)}

\* A request is served by a free handler; free handlers are interchangeable,
\* so the first one takes it.
Accepts(w) ==
    /\ workers[w].kind = "idle"
    /\ \A v \in Workers : v < w => workers[v].kind # "idle"

(***************************************************************************)
(* Time passes.                                                            *)
(***************************************************************************)
Advance ==
    /\ clock + Step <= start + MaxSteps * Step
    /\ \A w \in Workers : workers[w].span < MaxSpan
    /\ clock' = clock + Step
    /\ workers' = [w \in Workers |->
          IF workers[w].kind = "idle" THEN workers[w]
          ELSE [workers[w] EXCEPT !.span = @ + 1]]
    /\ ever_terminal' = EverTerminal(daily_reminders, clock + Step)
    /\ UNCHANGED <<start, customers, daily_reminders, openai_enabled, response_message, app,
                   notifications, processed, api_response>>

(***************************************************************************)
(* Dispatcher: POST /api/send-reminder -> process_reminder_request.        *)
(***************************************************************************)
\* ReminderLogic.send_reminder, lines 205-226: the clock reading, the text and
\* the customer list.  A worker with an empty list returns at once.
BeginSendReminder(w, base, is_missed, custs, msg, rest) ==
    IF custs = <<>>
    THEN [base EXCEPT !.kind = "dispatch", !.pc = "times", !.times = rest,
                      !.span = workers[w].span]
    ELSE [base EXCEPT !.kind = "dispatch", !.pc = "send", !.times = rest,
                      !.span = workers[w].span,
                      !.is_missed = is_missed, !.current_time = clock,
                      !.reminder_message = msg.text, !.generation = msg.generation,
                      !.custs = custs, !.idx = 1,
                      !.existed = {c \in CustomerIds :
                           ~unique_customer_date(daily_reminders, c, DateOf(clock))},
                      !.sentTo = {}]

\* ReminderLogic.check_missed_reminders: within 2 hours of 20:00 today.
InLegacyWindow(now) ==
    Abs(now - (DateOf(now) * DayMinutes + LegacyReminderHour * 60)) <= LegacyWindowHours * 60

\* process_reminder_request, lines 334-347: read the slots, then the legacy
\* missed-reminder check.
ProcessReminderRequest(w) ==
    /\ Accepts(w)
    /\ LET times == get_all_reminder_times
       IN IF times = <<>>
          THEN UNCHANGED workers
          ELSE IF get_last_reminder_date = NULL /\ InLegacyWindow(clock)
               THEN \E outcome \in ReminderOutcomes :
                       workers' = [workers EXCEPT ![w] =
                           BeginSendReminder(w, IdleWorker, TRUE, get_customers,
                                             [text |-> generate_ai_reminder_message(outcome),
                                              generation |-> outcome], times)]
               ELSE workers' = [workers EXCEPT ![w] =
                           [IdleWorker EXCEPT !.kind = "dispatch", !.pc = "times", !.times = times]]
    /\ UNCHANGED <<clock, start, customers, daily_reminders, openai_enabled,
                   response_message, app, notifications, processed, api_response, ever_terminal>>

\* process_reminder_request, lines 350-360 with check_and_send_reminders_for_time:
\* one slot of the loop, or the return when the loop is over.
CheckSlot(w) ==
    /\ workers[w].kind = "dispatch"
    /\ workers[w].pc = "times"
    /\ IF workers[w].times = <<>>
       THEN workers' = [workers EXCEPT ![w] = IdleWorker]
       ELSE LET t == Head(workers[w].times)
                rest == Tail(workers[w].times)
            IN IF HHMM(clock) = t
               THEN \E outcome \in ReminderOutcomes :
                       workers' = [workers EXCEPT ![w] =
                           BeginSendReminder(w, IdleWorker, FALSE,
                                             get_customers_by_reminder_time(t),
                                             [text |-> generate_ai_reminder_message(outcome),
                                              generation |-> outcome], rest)]
               ELSE workers' = [workers EXCEPT ![w] =
                           [IdleWorker EXCEPT !.kind = "dispatch", !.pc = "times", !.times = rest,
                                              !.span = workers[w].span]]
    /\ UNCHANGED <<clock, start, customers, daily_reminders, openai_enabled,
                   response_message, app, notifications, processed, api_response, ever_terminal>>

\* send_reminder, lines 233-250: one gateway send of the first loop.
SendToCustomer(w) ==
    /\ workers[w].kind = "dispatch"
    /\ workers[w].pc = "send"
    /\ LET c == workers[w].custs[workers[w].idx]
           last == workers[w].idx = Len(workers[w].custs)
       IN \E ok \in BOOLEAN :
            workers' = [workers EXCEPT ![w] =
                [@ EXCEPT !.sentTo = IF ok THEN @ \cup {c} ELSE @,
                          !.idx = IF last THEN 1 ELSE @ + 1,
                          !.pc = IF last THEN "create" ELSE "send"]]
    /\ UNCHANGED <<clock, start, customers, daily_reminders, openai_enabled,
                   response_message, app, notifications, processed, api_response, ever_terminal>>

\* create_daily_reminder on a table without the unique key.
create_daily_reminder_no_unique_key(customer_id, reminder_date, reminder_time, message_sent) ==
    Append(daily_reminders,
           NewDailyReminder(Len(daily_reminders) + 1, customer_id, reminder_date,
                            reminder_time, message_sent, clock))

\* Database.create_daily_reminder under the unique key: the new table, or the
\* old one when the INSERT raises.
create_daily_reminder(customer_id, reminder_date, reminder_time, message_sent) ==
    IF InsertAllowed(customer_id, reminder_date)
    THEN Append(daily_reminders,
                NewDailyReminder(Len(daily_reminders) + 1, customer_id, reminder_date,
                                 reminder_time, message_sent, clock))
    ELSE daily_reminders

\* send_reminder, lines 265-284: one customer of the second loop.  The call
\* db.update_escalation_level names a method Database does not have, so the
\* except branch is taken right after the INSERT.
CreateRecord(w) ==
    /\ workers[w].kind = "dispatch"
    /\ workers[w].pc = "create"
    /\ LET c == workers[w].custs[workers[w].idx]
           last == workers[w].idx = Len(workers[w].custs)
       IN /\ daily_reminders' = create_daily_reminder(c, DateOf(workers[w].current_time),
                                    HHMM(workers[w].current_time), workers[w].reminder_message)
          /\ workers' = [workers EXCEPT ![w] =
                IF last
                THEN [IdleWorker EXCEPT !.kind = "dispatch", !.pc = "times",
                                        !.times = workers[w].times,
                                        !.span = workers[w].span]
                ELSE [@ EXCEPT !.idx = @ + 1]]
    /\ ever_terminal' = EverTerminal(daily_reminders', clock)
    /\ UNCHANGED <<clock, start, customers, openai_enabled, response_message, app, notifications,
                   processed, api_response>>

(***************************************************************************)
(* Escalation tick: POST /api/escalation/check.                            *)
(***************************************************************************)
\* Database.get_reminders_needing_escalation: the WHERE clause for one row.
NeedsEscalation(r, now) ==
    /\ ~r.confirmed
    /\ r.reminder_date < DateOf(now)
    /\ (r.next_escalation_time = NULL \/ r.next_escalation_time <= now)

\* The columns of a fetched row that check_and_send_escalations goes on to read
\* (phone_number and customer_name follow from customer_id).
CandidateRow(r) ==
    [id |-> r.id, customer_id |-> r.customer_id, confirmed |-> r.confirmed,
     escalation_level |-> r.escalation_level, created_at |-> r.created_at]

\* ORDER BY dr.reminder_date ASC (rows of one date in id order).
RECURSIVE OrderByDate(_)
OrderByDate(ids) ==
    IF ids = {} THEN <<>>
    ELSE LET m == CHOOSE i \in ids : \A j \in ids :
                     \/ daily_reminders[i].reminder_date < daily_reminders[j].reminder_date
                     \/ /\ daily_reminders[i].reminder_date = daily_reminders[j].reminder_date
                        /\ i <= j
         IN <<CandidateRow(daily_reminders[m])>> \o OrderByDate(ids \ {m})

get_reminders_needing_escalation ==
    OrderByDate({i \in RowIds : NeedsEscalation(daily_reminders[i], clock)})

\* EscalationLogic.should_stop_escalating
should_stop_escalating(reminder_data, now) ==
    \/ reminder_data.confirmed
    \/ reminder_data.escalation_level >= MaxEscalationLevel
    \/ now - reminder_data.created_at > CutoffHours * 60

\* What becomes of the collaborator's call for an escalation text.
EscalationOutcomes ==
    IF openai_enabled THEN {"ai_a", "ai_b"} \cup Failures ELSE {"disabled"}

\* EscalationLogic._template_escalation_message: the template of the level,
\* the one of level 1 for a level without a template.
template_escalation_message(escalation_level) ==
    [level |-> IF escalation_level \in 1..MaxEscalationLevel THEN escalation_level ELSE 1,
     text |-> "template"]

\* EscalationLogic.generate_escalation_message with the outcome of the
\* collaborator's call.
generated_escalation_message(outcome, escalation_level) ==
    IF ~openai_enabled THEN template_escalation_message(escalation_level)
    ELSE IF outcome \in Failures THEN template_escalation_message(escalation_level)
    ELSE [level |-> escalation_level, text |-> outcome]

\* EscalationLogic.generate_escalation_message: the texts it can return.
generate_escalation_message(escalation_level) ==
    {generated_escalation_message(outcome, escalation_level) : outcome \in EscalationOutcomes}

\* EscalationLogic.calculate_next_escalation_time
calculate_next_escalation_time(current_time, escalation_level) ==
    current_time + EscalationMinutes

\* check_and_send_escalations, lines 21-30: the query.
CheckAndSendEscalations(w) ==
    /\ Accepts(w)
    /\ workers' = [workers EXCEPT ![w] =
          [IdleWorker EXCEPT !.kind = "tick", !.pc = "check",
                             !.cands = get_reminders_needing_escalation,
                             !.idx = 1,
                             !.terminal_at_start = ever_terminal]]
    /\ UNCHANGED <<clock, start, customers, daily_reminders, openai_enabled,
                   response_message, app, notifications, processed, api_response, ever_terminal>>

\* A loop that gives up on the candidates left once it has dealt with one.
NextCandidate_aborts(wk) ==
    [wk EXCEPT !.idx = Len(wk.cands) + 1, !.pc = "check", !.sent_message = NoMessage,
               !.next_time = NULL, !.generation = "none"]

\* The loop of check_and_send_escalations moves to its next candidate.
NextCandidate(wk) ==
    [wk EXCEPT !.idx = @ + 1, !.pc = "check", !.sent_message = NoMessage,
               !.next_time = NULL, !.generation = "none"]

\* check_and_send_escalations, lines 25-30 and 79-85: the response, once no
\* candidate is left.
ReturnEscalations(w) ==
    /\ workers[w].kind = "tick"
    /\ workers[w].pc = "check"
    /\ workers[w].idx > Len(workers[w].cands)
    /\ workers' = [workers EXCEPT ![w] = IdleWorker]
    /\ UNCHANGED <<clock, start, customers, daily_reminders, openai_enabled,
                   response_message, app, notifications, processed, api_response, ever_terminal>>

\* check_and_send_escalations, lines 37-59: the stop check, the gateway send
\* (EscalationLogic.send_escalation) and the next escalation time.
EscalateCandidate(w) ==
    /\ workers[w].kind = "tick"
    /\ workers[w].pc = "check"
    /\ workers[w].idx <= Len(workers[w].cands)
    /\ LET r == workers[w].cands[workers[w].idx]
       IN IF should_stop_escalating(r, clock)
          THEN workers' = [workers EXCEPT ![w] = NextCandidate(@)]
          ELSE \E outcome \in EscalationOutcomes, ok \in BOOLEAN :
                  IF ok
                  THEN workers' = [workers EXCEPT ![w] =
                          [@ EXCEPT !.pc = "update",
                                    !.sent_message =
                                        generated_escalation_message(outcome, r.escalation_level + 1),
                                    !.generation = outcome,
                                    !.next_time = calculate_next_escalation_time(
                                                      clock, r.escalation_level + 1)]]
                  ELSE workers' = [workers EXCEPT ![w] =
                          NextCandidate(@)]
    /\ UNCHANGED <<clock, start, customers, daily_reminders, openai_enabled,
                   response_message, app, notifications, processed, api_response, ever_terminal>>

\* Database.update_escalation that leaves the stored level as it was.
update_escalation_keeps_level(row, escalation_level, next_escalation_time, escalation_message, now) ==
    [row EXCEPT !.next_escalation_time = next_escalation_time,
                !.escalation_messages_sent =
                    Append(@, [level |-> escalation_level,
                               message |-> escalation_message,
                               timestamp |-> now])]

\* update_escalation that writes the new entry as the whole history.
update_escalation_replaces_history(row, escalation_level, next_escalation_time, escalation_message, now) ==
    [row EXCEPT !.escalation_level = escalation_level,
                !.next_escalation_time = next_escalation_time,
                !.escalation_messages_sent =
                    <<[level |-> escalation_level,
                       message |-> escalation_message,
                       timestamp |-> now]>>]

\* Database.update_escalation: one transaction that reads the history of the
\* row, appends the entry and writes level, next time and history.
update_escalation(row, escalation_level, next_escalation_time, escalation_message, now) ==
    [row EXCEPT !.escalation_level = escalation_level,
                !.next_escalation_time = next_escalation_time,
                !.escalation_messages_sent =
                    Append(@, [level |-> escalation_level,
                               message |-> escalation_message,
                               timestamp |-> now])]

\* check_and_send_escalations, lines 55-67: the text to record is generated
\* again, then the row is updated from the values of the fetched candidate.
RecordEscalation(w) ==
    /\ workers[w].kind = "tick"
    /\ workers[w].pc = "update"
    /\ LET r == workers[w].cands[workers[w].idx]
       IN \E msg \in generate_escalation_message(r.escalation_level + 1) :
            /\ daily_reminders' = [daily_reminders EXCEPT ![r.id] =
                  update_escalation(@, r.escalation_level + 1, workers[w].next_time,
                                    msg, clock)]
            /\ workers' = [workers EXCEPT ![w] = NextCandidate(@)]
    /\ ever_terminal' = EverTerminal(daily_reminders', clock)
    /\ UNCHANGED <<clock, start, customers, openai_enabled, response_message, app, notifications,
                   processed, api_response>>

(***************************************************************************)
(* Inbound message: MessageProcessor._process_confirmation.                *)
(***************************************************************************)
Phones == {1, 3}
Texts == {<<"o", "k">>, <<"n", "o">>, <<"h", "i">>}

\* str.strip()
RECURSIVE Strip(_)
Strip(s) ==
    IF s # <<>> /\ Head(s) \in {" ", "\n"} THEN Strip(Tail(s))
    ELSE IF s # <<>> /\ s[Len(s)] \in {" ", "\n"} THEN Strip(SubSeq(s, 1, Len(s) - 1))
    ELSE s

\* str.lower, on the letters the inputs use; Hebrew letters and emoji have no
\* case.
UpperCase == {"O", "K", "N", "Y", "E", "S"}
LowerOf(ch) ==
    CASE ch = "O" -> "o" [] ch = "K" -> "k" [] ch = "N" -> "n"
      [] ch = "Y" -> "y" [] ch = "E" -> "e" [] ch = "S" -> "s"
      [] OTHER -> ch
lower(message) == [k \in DOMAIN message |-> LowerOf(message[k])]

\* message.lower().strip()
message_lower(message) == Strip(lower(message))

\* pattern in message (Python substring test)
Contains(pattern, message) ==
    \E k \in 0..(Len(message) - Len(pattern)) :
        \A j \in 1..Len(pattern) : message[k + j] = pattern[j]

\* A Hebrew letter is written by its name, an emoji by its name.
confirm_patterns ==
    {<<"t","a","k","e","n">>, <<"y","e","s">>, <<"d","o","n","e">>, <<"o","k">>,
     <<"check_mark">>,
     <<"t","o","o","k">>, <<"t","a","k","e","n"," ","i","t">>,
     <<"s","w","a","l","l","o","w","e","d">>, <<"c","o","n","s","u","m","e","d">>,
     <<"lamed","qof","het","tav","yod">>, <<"kaf","final_nun">>,
     <<"samekh","yod","yod","mem","tav","yod">>, <<"alef","vav","qof","yod","yod">>,
     <<"lamed","qof","het","tav">>, <<"bet","lamed","ayin","tav","yod">>,
     <<"gimel","mem","resh","tav","yod">>}

missed_patterns ==
    {<<"m","i","s","s","e","d">>, <<"n","o">>, <<"f","o","r","g","o","t">>,
     <<"cross_mark">>,
     <<"d","i","d","n","'","t">>, <<"h","a","v","e","n","t">>,
     <<"h","a","v","e","n","'","t">>, <<"f","o","r","g","o","t","t","e","n">>,
     <<"he","het","mem","tsadi","tav","yod">>, <<"lamed","alef">>,
     <<"shin","kaf","het","tav","yod">>,
     <<"lamed","alef"," ","lamed","qof","het","tav","yod">>,
     <<"lamed","alef"," ","lamed","qof","het","tav">>,
     <<"shin","kaf","het","tav">>}

\* ConfirmationAI._template_confirmation_analysis: the confirmed flag.
template_confirmation_analysis(message) ==
    LET text == message_lower(message)
    IN \E p \in confirm_patterns : Contains(p, text)

\* ConfirmationAI._template_confirmation_analysis: the reply text.
template_confirmation_reply(message) ==
    LET text == message_lower(message)
    IN IF \E p \in confirm_patterns : Contains(p, text) THEN "confirm_reply"
       ELSE IF \E p \in missed_patterns : Contains(p, text) THEN "missed_reply"
       ELSE "unclear_reply"

\* ConfirmationAI._template_confirmation_analysis: the pair it returns.
template_analysis(message) ==
    [confirmed |-> template_confirmation_analysis(message),
     reply |-> template_confirmation_reply(message)]

\* What the call of the collaborator can give: an exception, a text that is
\* not JSON, a JSON value that is not an object, or a JSON object with any of
\* the keys confirmed and response.
AiOutputs ==
    {[kind |-> k, body |-> <<>>] : k \in Failures \cup {"not_json", "not_object"}}
    \cup {[kind |-> "object", body |-> b] :
             b \in WithField(WithField({<<>>}, "confirmed", BOOLEAN), "response", {"ai_reply"})}

\* ConfirmationAI.analyze_confirmation, given what the collaborator returned.
\* json.loads raises JSONDecodeError on a text that is not JSON; result.get
\* raises on a value that is not an object; both end in the template.
analyze_confirmation_of(output, message) ==
    IF ~openai_enabled THEN template_analysis(message)
    ELSE IF output.kind # "object" THEN template_analysis(message)
    ELSE [confirmed |-> IF "confirmed" \in DOMAIN output.body
                        THEN output.body["confirmed"] ELSE FALSE,
          reply |-> IF "response" \in DOMAIN output.body
                    THEN output.body["response"] ELSE "default_reply"]

\* ConfirmationAI.analyze_confirmation: the flags it can return.
analyze_confirmation(message) ==
    IF ~openai_enabled THEN {template_confirmation_analysis(message)}
    ELSE {analyze_confirmation_of(output, message).confirmed : output \in AiOutputs}

\* ConfirmationAI.analyze_confirmation: the reply texts that can come with the
\* flag.
analyze_confirmation_reply(message, confirmed) ==
    {r.reply : r \in {a \in IF ~openai_enabled THEN {template_analysis(message)}
                             ELSE {analyze_confirmation_of(output, message) :
                                      output \in AiOutputs} :
                         a.confirmed = confirmed}}

\* Database.get_customer_by_phone
get_customer_by_phone(phone) ==
    {c \in CustomerIds : customers[c].phone_number = phone}

\* Database.get_daily_reminder
get_daily_reminder(customer_id, reminder_date) ==
    {i \in RowIds : /\ daily_reminders[i].customer_id = customer_id
                    /\ daily_reminders[i].reminder_date = reminder_date}

\* _process_confirmation, lines 137-154: the lookups and the early returns, as
\* the state of the handler after them: idle when it has returned None.
ConfirmationLookup(phone, text) ==
    LET cs == get_customer_by_phone(phone)
    IN IF cs = {}
       THEN IdleWorker
       ELSE LET c == CHOOSE x \in cs : TRUE
                rs == get_daily_reminder(c, utc_date(clock))
            IN IF rs = {} \/ \E i \in rs : daily_reminders[i].confirmed
               THEN IdleWorker
               ELSE [IdleWorker EXCEPT !.kind = "inbound", !.pc = "analyze",
                                       !.customer_id = c,
                                       !.today = utc_date(clock),
                                       !.text = text]

\* MessageProcessor.process_message called with a message of a sender.
ProcessConfirmation(w) ==
    /\ Accepts(w)
    /\ \E phone \in Phones, text \in Texts :
         workers' = [workers EXCEPT ![w] = ConfirmationLookup(phone, text)]
    /\ UNCHANGED <<clock, start, customers, daily_reminders, openai_enabled,
                   response_message, app, notifications, processed, api_response, ever_terminal>>

\* Where the caller of process_message goes on: a request handler returns, the
\* polling loop has its reply to send.
AfterConfirmation(wk) ==
    IF wk.receiptId = 0 THEN IdleWorker
    ELSE [IdleWorker EXCEPT !.kind = "poll", !.pc = "reply", !.batch = wk.batch,
                            !.receiptId = wk.receiptId, !.sender = wk.sender]

\* update_daily_reminder_confirmation that also stops the escalation timer,
\* whatever the flag.
update_daily_reminder_confirmation_stops_timer(row, confirmed, confirmation_message, now) ==
    [row EXCEPT !.confirmed = confirmed,
                !.confirmation_message = confirmation_message,
                !.confirmation_time = now,
                !.next_escalation_time = NULL]

\* Database.update_daily_reminder_confirmation: the row as the UPDATE leaves it.
update_daily_reminder_confirmation(row, confirmed, confirmation_message, now) ==
    [row EXCEPT !.confirmed = confirmed,
                !.confirmation_message = confirmation_message,
                !.confirmation_time = now]

\* _process_confirmation, lines 156-178: the analysis and the UPDATE.  The call
\* db.stop_escalations_for_customer names a method Database does not have: it
\* raises, and the handler returns None through its except branch.
\* response_message holds what the latest call that came this far returned.
RecordConfirmation(w) ==
    /\ workers[w].kind = "inbound"
    /\ workers[w].pc = "analyze"
    /\ \E confirmed \in analyze_confirmation(workers[w].text) :
         /\ daily_reminders' = [i \in RowIds |->
               IF /\ daily_reminders[i].customer_id = workers[w].customer_id
                  /\ daily_reminders[i].reminder_date = workers[w].today
               THEN update_daily_reminder_confirmation(daily_reminders[i], confirmed,
                                                       workers[w].text, clock)
               ELSE daily_reminders[i]]
         /\ \E reply \in analyze_confirmation_reply(workers[w].text, confirmed) :
               response_message' = IF confirmed THEN None ELSE reply
    /\ workers' = [workers EXCEPT ![w] = AfterConfirmation(@)]
    /\ ever_terminal' = EverTerminal(daily_reminders', clock)
    /\ UNCHANGED <<clock, start, customers, openai_enabled, api_response, notifications,
                   processed, app>>

Next ==
    \/ Advance
    \/ \E w \in Workers : ProcessReminderRequest(w)
    \/ \E w \in Workers : CheckSlot(w)
    \/ \E w \in Workers : SendToCustomer(w)
    \/ \E w \in Workers : CreateRecord(w)
    \/ \E w \in Workers : CheckAndSendEscalations(w)
    \/ \E w \in Workers : EscalateCandidate(w)
    \/ \E w \in Workers : ReturnEscalations(w)
    \/ \E w \in Workers : RecordEscalation(w)
    \/ \E w \in Workers : ProcessConfirmation(w)
    \/ \E w \in Workers : RecordConfirmation(w)

Spec == Init /\ [][Next]_vars

NextDispatch ==
    \/ Advance
    \/ \E w \in Workers : ProcessReminderRequest(w)
    \/ \E w \in Workers : CheckSlot(w)
    \/ \E w \in Workers : SendToCustomer(w)
    \/ \E w \in Workers : CreateRecord(w)

SpecDispatch == Init /\ [][NextDispatch]_vars

NextLifecycle ==
    \/ Advance
    \/ \E w \in Workers : CheckAndSendEscalations(w)
    \/ \E w \in Workers : EscalateCandidate(w)
    \/ \E w \in Workers : ReturnEscalations(w)
    \/ \E w \in Workers : RecordEscalation(w)
    \/ \E w \in Workers : ProcessConfirmation(w)
    \/ \E w \in Workers : RecordConfirmation(w)

SpecLifecycle == InitLifecycle /\ [][NextLifecycle]_vars

(***************************************************************************)
(* Customer directory: the routes of customer_routes.py over the customers *)
(* table.  Texts are sequences of characters; a JSON body is a function    *)
(* from the keys it carries to their values.                               *)
(***************************************************************************)
Digits == {"0", "1", "2", "3", "4", "5", "6", "7", "8", "9"}

PhoneA == <<"9", "7", "2", "5", "0", "1", "2", "3", "4", "5">>
PhoneInputs ==
    {<<"+">> \o PhoneA, <<"9", "7", "2", "-">> \o SubSeq(PhoneA, 4, 10),
     <<"1", "2", "3", "4", "5">>}
NameInputs == {NoText, <<"D">>}
TimeInputs ==
    {<<"2", "0", ":", "0", "0">>, <<"9", ":", "3", "0">>, <<"2", "4", ":", "0", "0">>, NoText}

\* re.sub(r'[\s\-\(\)]', '', phone_number)
RECURSIVE Cleaned(_)
Cleaned(s) ==
    IF s = <<>> THEN <<>>
    ELSE (IF Head(s) \in {" ", "\n", "-", "(", ")"} THEN <<>> ELSE <<Head(s)>>)
         \o Cleaned(Tail(s))

\* validate_phone_number
validate_phone_number(phone_number) ==
    LET cleaned == Cleaned(phone_number)
        digits == IF cleaned # <<>> /\ Head(cleaned) = "+" THEN Tail(cleaned) ELSE cleaned
    IN /\ Len(digits) \in 10..15
       /\ \A k \in 1..Len(digits) : digits[k] \in Digits

\* validate_reminder_time: ^([01]?[0-9]|2[0-3]):[0-5][0-9]$, where $ also
\* matches before one trailing newline.
validate_reminder_time(reminder_time) ==
    LET t == IF reminder_time # <<>> /\ reminder_time[Len(reminder_time)] = "\n"
             THEN SubSeq(reminder_time, 1, Len(reminder_time) - 1)
             ELSE reminder_time
        n == Len(t)
    IN /\ n \in {4, 5}
       /\ t[n - 2] = ":"
       /\ t[n - 1] \in {"0", "1", "2", "3", "4", "5"}
       /\ t[n] \in Digits
       /\ IF n = 4 THEN t[1] \in Digits
          ELSE \/ t[1] \in {"0", "1"} /\ t[2] \in Digits
               \/ t[1] = "2" /\ t[2] \in {"0", "1", "2", "3"}

\* Database.get_customers(active_only=False)
get_customers_all == SetToDescSeq(CustomerIds)

\* AUTO_INCREMENT of customers.id
NextCustomerId ==
    IF CustomerIds = {} THEN 1
    ELSE 1 + (CHOOSE m \in CustomerIds : \A c \in CustomerIds : c <= m)

\* Database.add_customer: the INSERT, with the column defaults.
add_customer(phone_number, name, reminder_time) ==
    [c \in CustomerIds \cup {NextCustomerId} |->
        IF c \in CustomerIds THEN customers[c]
        ELSE [phone_number |-> phone_number, name |-> name,
              reminder_time |-> reminder_time, is_active |-> TRUE]]

\* customer_routes.add_customer, lines 98-128: the validation and the lookup
\* of the phone.
AddCustomer(w) ==
    /\ Accepts(w)
    /\ Cardinality(CustomerIds) < MaxCustomers
    /\ \E raw_phone \in PhoneInputs, raw_name \in NameInputs, raw_time \in TimeInputs :
         LET phone_number == Strip(raw_phone)
             name == Strip(raw_name)
             reminder_time == Strip(raw_time)
         IN IF \/ phone_number = <<>>
               \/ ~validate_phone_number(phone_number)
               \/ ~validate_reminder_time(reminder_time)
            THEN api_response' = 400 /\ UNCHANGED workers
            ELSE IF get_customer_by_phone(phone_number) # {}
            THEN api_response' = 409 /\ UNCHANGED workers
            ELSE /\ workers' = [workers EXCEPT ![w] =
                       [IdleWorker EXCEPT !.kind = "add", !.pc = "insert",
                                          !.phone_number = phone_number,
                                          !.name = name,
                                          !.reminder_time = reminder_time]]
                 /\ UNCHANGED api_response
    /\ UNCHANGED <<clock, start, customers, daily_reminders, openai_enabled,
                   response_message, app, notifications, processed, ever_terminal>>

\* customer_routes.add_customer, lines 130-146: the INSERT.  A phone that is
\* taken by now violates the UNIQUE key: the INSERT raises and the route
\* answers through its except branch.
InsertCustomer(w) ==
    /\ workers[w].kind = "add"
    /\ workers[w].pc = "insert"
    /\ IF get_customer_by_phone(workers[w].phone_number) # {}
       THEN /\ api_response' = 500
            /\ UNCHANGED customers
       ELSE /\ api_response' = 201
            /\ customers' = add_customer(workers[w].phone_number, workers[w].name,
                                         workers[w].reminder_time)
    /\ workers' = [workers EXCEPT ![w] = IdleWorker]
    /\ UNCHANGED <<clock, start, daily_reminders, openai_enabled, response_message, app, notifications, processed,
                   ever_terminal>>

\* The bodies of PUT /api/customers/<id>.
UpdateBodies ==
    WithField(WithField(WithField({<<>>}, "name", {<<"D">>}), "is_active", BOOLEAN),
              "reminder_time", TimeInputs)

\* Database.update_customer that rewrites every column, supplied or not.
update_customer_whole_row(customer_id, data) ==
    [c \in CustomerIds |->
        IF c # customer_id THEN customers[c]
        ELSE [f \in DOMAIN customers[c] |->
                IF f \in DOMAIN data THEN data[f]
                ELSE IF f = "is_active" THEN TRUE
                ELSE IF f = "phone_number" THEN customers[c][f] ELSE NoText]]

\* Database.update_customer: the table as the UPDATE leaves it; the SET list
\* holds the columns whose argument is not None.
update_customer(customer_id, data) ==
    [c \in CustomerIds |->
        IF c # customer_id THEN customers[c]
        ELSE [f \in DOMAIN customers[c] |->
                IF f \in DOMAIN data THEN data[f] ELSE customers[c][f]]]

\* Database.update_customer: the value it returns.  updated_at = NOW() is in
\* every SET list, so a matched row counts as changed.
update_customer_result(customer_id, data) ==
    DOMAIN data # {} /\ customer_id \in CustomerIds

\* customer_routes.update_customer
UpdateCustomer(customer_id, data) ==
    /\ IF DOMAIN data = {}
       THEN api_response' = 400 /\ UNCHANGED customers
       ELSE IF /\ "reminder_time" \in DOMAIN data
               /\ data["reminder_time"] # <<>>
               /\ ~validate_reminder_time(data["reminder_time"])
       THEN api_response' = 400 /\ UNCHANGED customers
       ELSE /\ customers' = update_customer(customer_id, data)
            /\ api_response' = IF update_customer_result(customer_id, data) THEN 200 ELSE 404
    /\ UNCHANGED <<clock, start, daily_reminders, workers, openai_enabled,
                   response_message, app, notifications, processed, ever_terminal>>

\* Database.delete_customer that removes the row.
delete_customer_hard(customer_id) ==
    [c \in CustomerIds \ {customer_id} |-> customers[c]]

\* Database.delete_customer: update_customer(customer_id, is_active=False).
delete_customer(customer_id) ==
    update_customer(customer_id, [is_active |-> FALSE])

\* customer_routes.delete_customer
DeleteCustomer(customer_id) ==
    /\ customers' = delete_customer(customer_id)
    /\ api_response' =
          IF update_customer_result(customer_id, [is_active |-> FALSE]) THEN 200 ELSE 404
    /\ UNCHANGED <<clock, start, daily_reminders, workers, openai_enabled,
                   response_message, app, notifications, processed, ever_terminal>>

\* The directory alone: adds, updates and deletes from an empty table.
InitDirectory ==
    /\ clock = LegacyReminderHour * 60
    /\ start = clock
    /\ customers = <<>>
    /\ openai_enabled = FALSE
    /\ daily_reminders = <<>>
    /\ workers = [w \in Workers |-> IdleWorker]
    /\ ever_terminal = {}
    /\ response_message = None
    /\ app = AppStopped
    /\ notifications = {}
    /\ processed = <<>>
    /\ api_response = 0

RequestIds == 1..(MaxCustomers + 1)

NextDirectory ==
    \/ \E w \in Workers : AddCustomer(w)
    \/ \E w \in Workers : InsertCustomer(w)
    \/ \E c \in RequestIds, data \in UpdateBodies : UpdateCustomer(c, data)
    \/ \E c \in RequestIds : DeleteCustomer(c)

SpecDirectory == InitDirectory /\ [][NextDirectory]_vars

\* Replies to a dispatched record, with either kind of analysis, while the
\* customer may be deleted.
InitInbound ==
    /\ clock \in LifecycleStarts
    /\ start = clock
    /\ customers = [InitialCustomers EXCEPT ![1].reminder_time = HHMM(clock)]
    /\ openai_enabled \in BOOLEAN
    /\ daily_reminders =
          <<NewDailyReminder(1, 1, DateOf(clock), HHMM(clock), "REMINDER_MESSAGE", clock)>>
    /\ workers = [w \in Workers |-> IdleWorker]
    /\ ever_terminal = {}
    /\ response_message = None
    /\ app = AppStopped
    /\ notifications = {}
    /\ processed = <<>>
    /\ api_response = 0

NextInbound ==
    \/ Advance
    \/ \E c \in CustomerIds : DeleteCustomer(c)
    \/ \E w \in Workers : ProcessConfirmation(w)
    \/ \E w \in Workers : RecordConfirmation(w)

SpecInbound == InitInbound /\ [][NextInbound]_vars


(***************************************************************************)
(* Ticks over the records of two customers of one slot.                    *)
(***************************************************************************)
\* Customer 2 has the 22:00 slot and customer 1 the 23:00 slot; both got their
\* records from the dispatches of day 0, and the ticks start at midnight.
InitTick ==
    /\ clock = DayMinutes
    /\ start = clock
    /\ customers = [c \in InitialIds |->
          [InitialCustomers[c] EXCEPT !.reminder_time = DayMinutes - 2 * c * Step]]
    /\ openai_enabled = FALSE
    /\ daily_reminders =
          <<NewDailyReminder(1, 2, 0, customers[2].reminder_time, "REMINDER_MESSAGE",
                             customers[2].reminder_time),
            NewDailyReminder(2, 1, 0, customers[1].reminder_time, "REMINDER_MESSAGE",
                             customers[1].reminder_time)>>
    /\ workers = [w \in Workers |-> IdleWorker]
    /\ ever_terminal = {}
    /\ response_message = None
    /\ app = AppStopped
    /\ notifications = {}
    /\ processed = <<>>
    /\ api_response = 0

NextTick ==
    \/ Advance
    \/ \E w \in Workers : CheckAndSendEscalations(w)
    \/ \E w \in Workers : EscalateCandidate(w)
    \/ \E w \in Workers : ReturnEscalations(w)
    \/ \E w \in Workers : RecordEscalation(w)

SpecTick == InitTick /\ [][NextTick]_vars


(***************************************************************************)
(* Replies through the evening of the dispatch.                            *)
(***************************************************************************)
\* Customer 1 has the 20:00 slot and has just got today's record from it.
InitEvening ==
    /\ clock = LegacyReminderHour * 60
    /\ start = clock
    /\ customers = [InitialCustomers EXCEPT ![1].reminder_time = HHMM(clock)]
    /\ openai_enabled = FALSE
    /\ daily_reminders =
          <<NewDailyReminder(1, 1, DateOf(clock), HHMM(clock), "REMINDER_MESSAGE", clock)>>
    /\ workers = [w \in Workers |-> IdleWorker]
    /\ ever_terminal = {}
    /\ response_message = None
    /\ app = AppStopped
    /\ notifications = {}
    /\ processed = <<>>
    /\ api_response = 0

NextEvening ==
    \/ Advance
    \/ \E w \in Workers : ProcessConfirmation(w)
    \/ \E w \in Workers : RecordConfirmation(w)

SpecEvening == InitEvening /\ [][NextEvening]_vars

\* Updates and deletes on a table that two adds have filled.
InitUpdate ==
    /\ clock = LegacyReminderHour * 60
    /\ start = clock
    /\ customers =
          <<[phone_number |-> <<"+">> \o PhoneA, name |-> NoText,
             reminder_time |-> <<"2", "0", ":", "0", "0">>, is_active |-> TRUE],
            [phone_number |-> <<"9", "7", "2", "-">> \o SubSeq(PhoneA, 4, 10), name |-> NoText,
             reminder_time |-> <<"9", ":", "3", "0">>, is_active |-> TRUE]>>
    /\ openai_enabled = FALSE
    /\ daily_reminders = <<>>
    /\ workers = [w \in Workers |-> IdleWorker]
    /\ ever_terminal = {}
    /\ response_message = None
    /\ app = AppStopped
    /\ notifications = {}
    /\ processed = <<>>
    /\ api_response = 0

NextUpdate ==
    \/ \E c \in RequestIds, data \in UpdateBodies : UpdateCustomer(c, data)
    \/ \E c \in RequestIds : DeleteCustomer(c)

SpecUpdate == InitUpdate /\ [][NextUpdate]_vars

(***************************************************************************)
(* Inbound delivery by push: POST /webhook.                                *)
(***************************************************************************)
\* Config.RECIPIENT_PHONE: the phone of customer 1.
RECIPIENT_PHONE == 1
SenderPhones == {1, 2, 3}
WebhookTexts == Texts \cup {NoText}

\* The gateway posts a notification and a handler takes the request.
ReceiveWebhook(w) ==
    /\ Accepts(w)
    /\ \E phone \in SenderPhones, text \in WebhookTexts :
         workers' = [workers EXCEPT ![w] =
            [IdleWorker EXCEPT !.kind = "webhook", !.pc = "filter",
                               !.sender = phone, !.text = text]]
    /\ UNCHANGED <<clock, start, customers, daily_reminders, openai_enabled,
                   response_message, app, notifications, processed, api_response, ever_terminal>>

\* webhook_handler, lines 42-73: an empty content and a sender other than the
\* configured recipient are answered at once; any other message goes to
\* process_message.
WebhookHandler(w) ==
    /\ workers[w].kind = "webhook"
    /\ workers' = [workers EXCEPT ![w] =
          IF workers[w].text = NoText \/ workers[w].sender # RECIPIENT_PHONE
          THEN IdleWorker
          ELSE ConfirmationLookup(workers[w].sender, workers[w].text)]
    /\ UNCHANGED <<clock, start, customers, daily_reminders, openai_enabled,
                   response_message, app, notifications, processed, api_response, ever_terminal>>

\* Both customers have today's record, unanswered, when the messages arrive.
InitWebhook ==
    /\ clock \in LifecycleStarts
    /\ start = clock
    /\ customers = InitialCustomers
    /\ openai_enabled = FALSE
    /\ daily_reminders =
          [c \in InitialIds |->
              NewDailyReminder(c, c, DateOf(clock), HHMM(clock), "REMINDER_MESSAGE", clock)]
    /\ workers = [w \in Workers |-> IdleWorker]
    /\ ever_terminal = {}
    /\ response_message = None
    /\ app = AppStopped
    /\ notifications = {}
    /\ processed = <<>>
    /\ api_response = 0

NextWebhook ==
    \/ \E c \in CustomerIds : DeleteCustomer(c)
    \/ \E w \in Workers : ReceiveWebhook(w)
    \/ \E w \in Workers : WebhookHandler(w)
    \/ \E w \in Workers : RecordConfirmation(w)

SpecWebhook == InitWebhook /\ [][NextWebhook]_vars

\* A slot dispatch at 23:30 and the ticks of the first hour after midnight,
\* with the collaborator enabled or not.
InitGeneration ==
    /\ clock = DayMinutes - Step
    /\ start = clock - (MaxSteps - 2) * Step
    /\ customers = [InitialCustomers EXCEPT ![2].is_active = FALSE]
    /\ openai_enabled \in BOOLEAN
    /\ daily_reminders = <<>>
    /\ workers = [w \in Workers |-> IdleWorker]
    /\ ever_terminal = {}
    /\ response_message = None
    /\ app = AppStopped
    /\ notifications = {}
    /\ processed = <<>>
    /\ api_response = 0

NextGeneration ==
    \/ Advance
    \/ \E w \in Workers : ProcessReminderRequest(w)
    \/ \E w \in Workers : CheckSlot(w)
    \/ \E w \in Workers : SendToCustomer(w)
    \/ \E w \in Workers : CreateRecord(w)
    \/ \E w \in Workers : CheckAndSendEscalations(w)
    \/ \E w \in Workers : EscalateCandidate(w)
    \/ \E w \in Workers : RecordEscalation(w)
    \/ \E w \in Workers : ReturnEscalations(w)

SpecGeneration == InitGeneration /\ [][NextGeneration]_vars

(***************************************************************************)
(* The classifier alone: ConfirmationAI.analyze_confirmation applied to a  *)
(* text and to what the collaborator returned for it.                      *)
(***************************************************************************)
AnalyzeConfirmation(w) ==
    /\ Accepts(w)
    /\ \E text \in Texts, output \in AiOutputs :
         workers' = [workers EXCEPT ![w] =
            [IdleWorker EXCEPT !.kind = "classify", !.pc = "done",
                               !.text = text,
                               !.ai_output = IF openai_enabled THEN output ELSE @,
                               !.analysis = analyze_confirmation_of(output, text)]]
    /\ UNCHANGED <<clock, start, customers, daily_reminders, openai_enabled,
                   response_message, app, notifications, processed, api_response, ever_terminal>>

\* The caller has taken the pair.
ReturnAnalysis(w) ==
    /\ workers[w].kind = "classify"
    /\ workers' = [workers EXCEPT ![w] = IdleWorker]
    /\ UNCHANGED <<clock, start, customers, daily_reminders, openai_enabled,
                   response_message, app, notifications, processed, api_response, ever_terminal>>

InitClassifier ==
    /\ clock = LegacyReminderHour * 60
    /\ start = clock
    /\ customers = InitialCustomers
    /\ openai_enabled \in BOOLEAN
    /\ daily_reminders = <<>>
    /\ workers = [w \in Workers |-> IdleWorker]
    /\ ever_terminal = {}
    /\ response_message = None
    /\ app = AppStopped
    /\ notifications = {}
    /\ processed = <<>>
    /\ api_response = 0

NextClassifier ==
    \/ \E w \in Workers : AnalyzeConfirmation(w)
    \/ \E w \in Workers : ReturnAnalysis(w)

SpecClassifier == InitClassifier /\ [][NextClassifier]_vars

(***************************************************************************)
(* Statistics: GET /api/confirmations/stats -> get_confirmation_stats.     *)
(***************************************************************************)
WindowDays == {0, 1}

\* STR_TO_DATE(reminder_date, '%Y-%m-%d') >= DATE_SUB(CURDATE(), INTERVAL %s DAY)
InWindow(r, days_back, now) == r.reminder_date >= DateOf(now) - days_back

\* get_confirmation_stats that counts the whole table.
get_confirmation_stats_all_time(days_back) ==
    LET total == Cardinality(RowIds)
        confirmed == Cardinality({i \in RowIds : daily_reminders[i].confirmed})
        pending == Cardinality({i \in RowIds : ~daily_reminders[i].confirmed})
    IN [total |-> total, confirmed |-> confirmed, pending |-> pending,
        confirmation_rate |-> IF total > 0 THEN <<confirmed * 100, total>> ELSE <<0, 1>>]

\* Database.get_confirmation_stats: the three counts, read in one transaction,
\* and the rate confirmed / total * 100 as the fraction <<numerator, denominator>>.
get_confirmation_stats(days_back) ==
    LET total == Cardinality({i \in RowIds : InWindow(daily_reminders[i], days_back, clock)})
        confirmed == Cardinality({i \in RowIds :
                        /\ daily_reminders[i].confirmed
                        /\ InWindow(daily_reminders[i], days_back, clock)})
        pending == Cardinality({i \in RowIds :
                        /\ ~daily_reminders[i].confirmed
                        /\ InWindow(daily_reminders[i], days_back, clock)})
    IN [total |-> total, confirmed |-> confirmed, pending |-> pending,
        confirmation_rate |-> IF total > 0 THEN <<confirmed * 100, total>> ELSE <<0, 1>>]

\* confirmation_routes.get_confirmation_stats: the query.
GetConfirmationStats(w) ==
    /\ Accepts(w)
    /\ \E days_back \in WindowDays :
         workers' = [workers EXCEPT ![w] =
            [IdleWorker EXCEPT !.kind = "stats", !.pc = "respond",
                               !.days_back = days_back,
                               !.stats = get_confirmation_stats(days_back)]]
    /\ UNCHANGED <<clock, start, customers, daily_reminders, openai_enabled,
                   response_message, app, notifications, processed, api_response, ever_terminal>>

\* confirmation_routes.get_confirmation_stats: the response.
ReturnStats(w) ==
    /\ workers[w].kind = "stats"
    /\ workers' = [workers EXCEPT ![w] = IdleWorker]
    /\ UNCHANGED <<clock, start, customers, daily_reminders, openai_enabled,
                   response_message, app, notifications, processed, api_response, ever_terminal>>

\* 23:30 of day 0: customer 1 has the record of its 23:00 slot, the slot of
\* customer 2 is 00:00.
InitStats ==
    /\ clock = DayMinutes - Step
    /\ start = clock - (MaxSteps - 2) * Step
    /\ customers = [InitialCustomers EXCEPT ![1].reminder_time = DayMinutes - 2 * Step,
                                            ![2].reminder_time = 0]
    /\ openai_enabled = FALSE
    /\ daily_reminders =
          <<NewDailyReminder(1, 1, 0, DayMinutes - 2 * Step, "REMINDER_MESSAGE",
                             DayMinutes - 2 * Step)>>
    /\ workers = [w \in Workers |-> IdleWorker]
    /\ ever_terminal = {}
    /\ response_message = None
    /\ app = AppStopped
    /\ notifications = {}
    /\ processed = <<>>
    /\ api_response = 0

NextStats ==
    \/ Advance
    \/ \E w \in Workers : ProcessReminderRequest(w)
    \/ \E w \in Workers : CheckSlot(w)
    \/ \E w \in Workers : SendToCustomer(w)
    \/ \E w \in Workers : CreateRecord(w)
    \/ \E w \in Workers : CheckAndSendEscalations(w)
    \/ \E w \in Workers : EscalateCandidate(w)
    \/ \E w \in Workers : RecordEscalation(w)
    \/ \E w \in Workers : ReturnEscalations(w)
    \/ \E w \in Workers : ProcessConfirmation(w)
    \/ \E w \in Workers : RecordConfirmation(w)
    \/ \E w \in Workers : GetConfirmationStats(w)
    \/ \E w \in Workers : ReturnStats(w)

SpecStats == InitStats /\ [][NextStats]_vars

(***************************************************************************)
(* Inbound delivery by polling: start_message_processing.  notifications   *)
(* is the queue the gateway keeps until a notification is deleted;         *)
(* processed counts, per receiptId, the passes of the loop over it (2      *)
(* stands for two or more).                                                *)
(***************************************************************************)
Min(a, b) == IF a < b THEN a ELSE b

\* A message reaches the gateway.
Deliver ==
    /\ Len(processed) < MaxNotifications
    /\ \E phone \in SenderPhones, text \in WebhookTexts :
         notifications' = notifications \cup
            {[receiptId |-> Len(processed) + 1, sender |-> phone, text |-> text]}
    /\ processed' = Append(processed, 0)
    /\ UNCHANGED <<clock, start, customers, daily_reminders, workers, openai_enabled,
                   response_message, app, api_response, ever_terminal>>

\* GreenAPIClient.get_notifications: the queue, oldest first.
RECURSIVE get_notifications(_)
get_notifications(queue) ==
    IF queue = {} THEN <<>>
    ELSE LET n == CHOOSE x \in queue : \A y \in queue : x.receiptId <= y.receiptId
         IN <<n>> \o get_notifications(queue \ {n})

\* GreenAPIClient.delete_notification when the request succeeds.
delete_notification(receipt_id) ==
    {n \in notifications : n.receiptId # receipt_id}

\* start_message_processing, lines 122-129: one round of the loop of the single
\* polling thread, when the gateway has notifications.
Poll(w) ==
    /\ Accepts(w)
    /\ \A v \in Workers : workers[v].receiptId = 0 /\ workers[v].kind # "poll"
    /\ notifications # {}
    /\ workers' = [workers EXCEPT ![w] =
          [IdleWorker EXCEPT !.kind = "poll", !.pc = "next",
                             !.batch = get_notifications(notifications)]]
    /\ UNCHANGED <<clock, start, customers, daily_reminders, openai_enabled,
                   response_message, app, notifications, processed, api_response, ever_terminal>>

\* start_message_processing, lines 129-152: the next notification of the
\* batch.  One without content or from a sender other than the configured
\* recipient goes straight to its deletion; any other goes to process_message.
PollerNext(w) ==
    /\ workers[w].kind = "poll"
    /\ workers[w].pc = "next"
    /\ IF workers[w].batch = <<>>
       THEN /\ workers' = [workers EXCEPT ![w] = IdleWorker]
            /\ UNCHANGED processed
       ELSE LET n == Head(workers[w].batch)
                r == ConfirmationLookup(n.sender, n.text)
            IN /\ processed' = [processed EXCEPT ![n.receiptId] = Min(@ + 1, 2)]
               /\ workers' = [workers EXCEPT ![w] =
                     IF n.text = NoText \/ n.sender # RECIPIENT_PHONE
                     THEN [@ EXCEPT !.pc = "delete", !.receiptId = n.receiptId,
                                    !.sender = n.sender]
                     ELSE IF r = IdleWorker
                     THEN [@ EXCEPT !.pc = "reply", !.receiptId = n.receiptId,
                                    !.sender = n.sender]
                     ELSE [r EXCEPT !.batch = workers[w].batch,
                                    !.receiptId = n.receiptId, !.sender = n.sender]]
    /\ UNCHANGED <<clock, start, customers, daily_reminders, openai_enabled,
                   response_message, app, notifications, api_response, ever_terminal>>

\* start_message_processing, lines 154-157: the reply goes to the gateway,
\* which takes it or not.
PollerReply(w) ==
    /\ workers[w].kind = "poll"
    /\ workers[w].pc = "reply"
    /\ \E ok \in BOOLEAN :
         workers' = [workers EXCEPT ![w] =
            [@ EXCEPT !.pc = "delete", !.sentTo = IF ok THEN {workers[w].sender} ELSE {}]]
    /\ UNCHANGED <<clock, start, customers, daily_reminders, openai_enabled,
                   response_message, app, notifications, processed, api_response, ever_terminal>>

\* start_message_processing, lines 142 and 160: delete_notification, whose
\* result the loop does not look at; a request that fails leaves the
\* notification in the queue.
PollerDelete(w) ==
    /\ workers[w].kind = "poll"
    /\ workers[w].pc = "delete"
    /\ \E ok \in BOOLEAN :
         notifications' = IF ok THEN delete_notification(workers[w].receiptId)
                          ELSE notifications
    /\ workers' = [workers EXCEPT ![w] =
          [IdleWorker EXCEPT !.kind = "poll", !.pc = "next",
                             !.batch = Tail(workers[w].batch)]]
    /\ UNCHANGED <<clock, start, customers, daily_reminders, openai_enabled,
                   response_message, app, processed, api_response, ever_terminal>>

\* Both customers have today's record, unanswered; the queue is empty.
InitPolling ==
    /\ clock \in LifecycleStarts
    /\ start = clock
    /\ customers = InitialCustomers
    /\ openai_enabled = FALSE
    /\ daily_reminders =
          [c \in InitialIds |->
              NewDailyReminder(c, c, DateOf(clock), HHMM(clock), "REMINDER_MESSAGE", clock)]
    /\ workers = [w \in Workers |-> IdleWorker]
    /\ ever_terminal = {}
    /\ response_message = None
    /\ app = AppStopped
    /\ notifications = {}
    /\ processed = <<>>
    /\ api_response = 0

NextPolling ==
    \/ Deliver
    \/ \E w \in Workers : Poll(w)
    \/ \E w \in Workers : PollerNext(w)
    \/ \E w \in Workers : RecordConfirmation(w)
    \/ \E w \in Workers : PollerReply(w)
    \/ \E w \in Workers : PollerDelete(w)

SpecPolling == InitPolling /\ [][NextPolling]_vars

(***************************************************************************)
(* Ticks that do not overlap: a request to /api/escalation/check arrives   *)
(* only when no other is being served.  Time may pass inside a tick.       *)
(***************************************************************************)
NoTickRunning == \A w \in Workers : workers[w].kind # "tick"

NextLadder ==
    \/ Advance
    \/ \E w \in Workers : NoTickRunning /\ CheckAndSendEscalations(w)
    \/ \E w \in Workers : EscalateCandidate(w)
    \/ \E w \in Workers : ReturnEscalations(w)
    \/ \E w \in Workers : RecordEscalation(w)

SpecLadder == InitTick /\ [][NextLadder]_vars

(***************************************************************************)
(* The keyword fallback alone: _template_confirmation_analysis applied to  *)
(* the entries of its two vocabularies and to other texts.                 *)
(***************************************************************************)
KeywordTexts ==
    confirm_patterns \cup missed_patterns
    \cup {<<"h","e","l","p">>, <<"O","K">>, <<" ","n","o"," ">>}

TemplateConfirmationAnalysis(w) ==
    /\ Accepts(w)
    /\ \E text \in KeywordTexts :
         workers' = [workers EXCEPT ![w] =
            [IdleWorker EXCEPT !.kind = "classify", !.pc = "done",
                               !.text = text,
                               !.analysis = template_analysis(text)]]
    /\ UNCHANGED <<clock, start, customers, daily_reminders, openai_enabled,
                   response_message, app, notifications, processed, api_response, ever_terminal>>

NextKeywords ==
    \/ \E w \in Workers : TemplateConfirmationAnalysis(w)
    \/ \E w \in Workers : ReturnAnalysis(w)

SpecKeywords == InitClassifier /\ [][NextKeywords]_vars

(***************************************************************************)
(* A recipient whose reminder time is in the small hours: the dispatch and *)
(* the replies that follow it.                                             *)
(***************************************************************************)
NightStarts == {DayMinutes - Step, DayMinutes + Step}

InitNight ==
    /\ clock \in NightStarts
    /\ start = clock - (MaxSteps - 2) * Step
    /\ customers = [InitialCustomers EXCEPT ![1].reminder_time = HHMM(clock)]
    /\ daily_reminders = <<>>
    /\ workers = [w \in Workers |-> IdleWorker]
    /\ openai_enabled = FALSE
    /\ ever_terminal = {}
    /\ response_message = None
    /\ app = AppStopped
    /\ notifications = {}
    /\ processed = <<>>
    /\ api_response = 0

NextNight ==
    \/ Advance
    \/ \E w \in Workers : ProcessReminderRequest(w)
    \/ \E w \in Workers : CheckSlot(w)
    \/ \E w \in Workers : SendToCustomer(w)
    \/ \E w \in Workers : CreateRecord(w)
    \/ \E w \in Workers : ProcessConfirmation(w)
    \/ \E w \in Workers : RecordConfirmation(w)

SpecNight == InitNight /\ [][NextNight]_vars

(***************************************************************************)
(* The dispatcher on the rows of the directory, reminder_time as the text  *)
(* the routes stored: check_and_send_reminders_for_time, one slot.         *)
(***************************************************************************)
DigitChars == <<"0", "1", "2", "3", "4", "5", "6", "7", "8", "9">>

\* now.strftime('%H:%M')
strftime_HM(t) ==
    LET h == HHMM(t) \div 60
        m == HHMM(t) % 60
    IN <<DigitChars[(h \div 10) + 1], DigitChars[(h % 10) + 1], ":",
         DigitChars[(m \div 10) + 1], DigitChars[(m % 10) + 1]>>

\* The minute of the day that a text H:MM or HH:MM names.
DigitValue(ch) == CHOOSE d \in 0..9 : DigitChars[d + 1] = ch
MinuteOfDay(reminder_time) ==
    LET n == Len(reminder_time)
        hours == IF n = 4 THEN DigitValue(reminder_time[1])
                 ELSE 10 * DigitValue(reminder_time[1]) + DigitValue(reminder_time[2])
    IN hours * 60 + 10 * DigitValue(reminder_time[n - 1]) + DigitValue(reminder_time[n])

\* SELECT DISTINCT reminder_time FROM customers WHERE is_active = 1
StoredReminderTimes ==
    {customers[c].reminder_time : c \in {d \in CustomerIds : customers[d].is_active}}

\* send_reminder, lines 265-284, for the customers selected: the INSERTs.
RECURSIVE CreateDailyReminders(_, _, _, _)
CreateDailyReminders(rows, custs, current_time, message_sent) ==
    IF custs = <<>> THEN rows
    ELSE CreateDailyReminders(
            IF unique_customer_date(rows, Head(custs), DateOf(current_time))
            THEN Append(rows, NewDailyReminder(Len(rows) + 1, Head(custs), DateOf(current_time),
                                               strftime_HM(current_time), message_sent, clock))
            ELSE rows,
            Tail(custs), current_time, message_sent)

\* check_and_send_reminders_for_time, lines 164-170, and send_reminder, lines
\* 214-226: the comparison of the clock with the slot and the selection.
CheckAndSendRemindersForTime(w) ==
    /\ Accepts(w)
    /\ \E reminder_time \in StoredReminderTimes :
         workers' = [workers EXCEPT ![w] =
            [IdleWorker EXCEPT !.kind = "slot", !.pc = "create",
                               !.reminder_time = reminder_time,
                               !.current_time = clock,
                               !.custs = IF strftime_HM(clock) = reminder_time
                                         THEN get_customers_by_reminder_time(reminder_time)
                                         ELSE <<>>]]
    /\ UNCHANGED <<clock, start, customers, daily_reminders, openai_enabled,
                   response_message, app, notifications, processed, api_response, ever_terminal>>

\* send_reminder, lines 228-284, for the customers of the slot.
SendReminderForTime(w) ==
    /\ workers[w].kind = "slot"
    /\ workers[w].pc = "create"
    /\ daily_reminders' = CreateDailyReminders(daily_reminders, workers[w].custs,
                                               workers[w].current_time, "REMINDER_MESSAGE")
    /\ workers' = [workers EXCEPT ![w] = IdleWorker]
    /\ UNCHANGED <<clock, start, customers, openai_enabled,
                   response_message, app, notifications, processed, api_response, ever_terminal>>

\* Minutes that stored times name, and the directory empty.
SlotStarts == {MinuteOfDay(t) : t \in {u \in TimeInputs : validate_reminder_time(u)}}

InitSlots ==
    /\ clock \in SlotStarts
    /\ start = clock - (MaxSteps - 1) * Step
    /\ customers = <<>>
    /\ openai_enabled = FALSE
    /\ daily_reminders = <<>>
    /\ workers = [w \in Workers |-> IdleWorker]
    /\ ever_terminal = {}
    /\ response_message = None
    /\ app = AppStopped
    /\ notifications = {}
    /\ processed = <<>>
    /\ api_response = 0

NextSlots ==
    \/ Advance
    \/ \E w \in Workers : AddCustomer(w)
    \/ \E w \in Workers : InsertCustomer(w)
    \/ \E w \in Workers : CheckAndSendRemindersForTime(w)
    \/ \E w \in Workers : SendReminderForTime(w)

SpecSlots == InitSlots /\ [][NextSlots]_vars

(***************************************************************************)
(* Ticks over the records of recipients who may be deleted meanwhile.      *)
(***************************************************************************)
NextDeleted ==
    \/ Advance
    \/ \E c \in CustomerIds : DeleteCustomer(c)
    \/ \E w \in Workers : NoTickRunning /\ CheckAndSendEscalations(w)
    \/ \E w \in Workers : EscalateCandidate(w)
    \/ \E w \in Workers : ReturnEscalations(w)
    \/ \E w \in Workers : RecordEscalation(w)

SpecDeleted == InitTick /\ [][NextDeleted]_vars

(***************************************************************************)
(* Background services of app.py.  app holds the globals: app_running, the *)
(* threads ever started (a thread that has returned has pc "done"), the    *)
(* jobs registered with the schedule module (each the                      *)
(* check_and_send_reminder of a ReminderScheduler instance), the           *)
(* ReminderScheduler instances (the global scheduler is the last one) and  *)
(* the reminders table.                                                    *)
(***************************************************************************)
REMINDER_TIME == 20 * 60

ThreadIds == DOMAIN app.threads

NewThread(target, job) ==
    [target |-> target, pc |-> "start", job |-> job, current_time |-> NULL, reminder_id |-> 0]

Alive(target) ==
    {t \in ThreadIds : app.threads[t].target = target /\ app.threads[t].pc # "done"}

\* start_app / auto-start: initialize_app, which may fail, then
\* start_background_services.
StartApp ==
    /\ Len(app.schedulers) < MaxStarts
    /\ IF app.app_running
       THEN UNCHANGED app
       ELSE \E initialized \in BOOLEAN :
               IF ~initialized
               THEN UNCHANGED app
               ELSE app' = [app EXCEPT
                       !.app_running = TRUE,
                       !.schedulers = Append(@, [last_reminder_sent |-> NULL]),
                       !.threads = @ \o <<NewThread("start_message_processing", 0),
                                          NewThread("start_scheduler", 0)>>]
    /\ UNCHANGED <<clock, start, customers, daily_reminders, workers, openai_enabled,
                   response_message, notifications, processed, api_response, ever_terminal>>

\* stop_app: the flag is cleared; join(timeout=5) returns whether or not the
\* threads, which sleep up to 60 seconds, have seen it.
StopApp ==
    /\ IF app.app_running
       THEN app' = [app EXCEPT !.app_running = FALSE]
       ELSE UNCHANGED app
    /\ UNCHANGED <<clock, start, customers, daily_reminders, workers, openai_enabled,
                   response_message, notifications, processed, api_response, ever_terminal>>

\* start_message_processing: the test of the while loop.
MessageLoop(t) ==
    /\ app.threads[t].target = "start_message_processing"
    /\ app.threads[t].pc \in {"start", "loop"}
    /\ app' = [app EXCEPT !.threads[t].pc = IF app.app_running THEN "loop" ELSE "done"]
    /\ UNCHANGED <<clock, start, customers, daily_reminders, workers, openai_enabled,
                   response_message, notifications, processed, api_response, ever_terminal>>

\* start_scheduler, line 177, with setup_schedule: the job of the global
\* scheduler is added to the jobs of the schedule module.
SetupSchedule(t) ==
    /\ app.threads[t].target = "start_scheduler"
    /\ app.threads[t].pc = "start"
    /\ app' = [app EXCEPT !.jobs = Append(@, Len(app.schedulers)),
                          !.threads[t].pc = "loop"]
    /\ UNCHANGED <<clock, start, customers, daily_reminders, workers, openai_enabled,
                   response_message, notifications, processed, api_response, ever_terminal>>

\* ReminderScheduler.should_send_reminder
should_send_reminder(self, now) ==
    /\ self.last_reminder_sent # NULL => DateOf(now) > DateOf(self.last_reminder_sent)
    /\ Abs(HHMM(now) - REMINDER_TIME) <= 1

\* start_scheduler, lines 179-185: the test of the while loop, then
\* schedule.run_pending, one registered job at a step
\* (check_and_send_reminder up to the start of send_daily_reminder).
SchedulerLoop(t) ==
    /\ app.threads[t].target = "start_scheduler"
    /\ app.threads[t].pc = "loop"
    /\ IF ~app.app_running
       THEN app' = [app EXCEPT !.threads[t].pc = "done"]
       ELSE \E j \in DOMAIN app.jobs :
               IF /\ should_send_reminder(app.schedulers[app.jobs[j]], clock)
                  /\ Len(app.reminders) + Cardinality({u \in ThreadIds : app.threads[u].pc = "send"})
                        < MaxReminders
               THEN app' = [app EXCEPT !.threads[t].pc = "send",
                                       !.threads[t].job = app.jobs[j]]
               ELSE UNCHANGED app
    /\ UNCHANGED <<clock, start, customers, daily_reminders, workers, openai_enabled,
                   response_message, notifications, processed, api_response, ever_terminal>>

\* POST /api/test-reminder: send_test_reminder of the global scheduler, in the
\* thread of the request.
TestReminder ==
    /\ Cardinality({t \in ThreadIds : app.threads[t].target = "test_reminder"}) < MaxTests
    /\ IF ~app.app_running
       THEN UNCHANGED app
       ELSE app' = [app EXCEPT !.threads =
               Append(@, [NewThread("test_reminder", Len(app.schedulers))
                             EXCEPT !.pc = "send"])]
    /\ UNCHANGED <<clock, start, customers, daily_reminders, workers, openai_enabled,
                   response_message, notifications, processed, api_response, ever_terminal>>

\* Where a thread goes on after send_daily_reminder.
AfterSend(thread) ==
    IF thread.target = "test_reminder" THEN "done" ELSE "loop"

\* send_daily_reminder, lines 86-101: current_time is read, save_reminder, then
\* the gateway takes the message or not.
SendDailyReminder(t) ==
    /\ app.threads[t].pc = "send"
    /\ \E ok \in BOOLEAN :
         app' = [app EXCEPT
            !.reminders = Append(@, [scheduled_time |-> clock, sent |-> FALSE]),
            !.threads[t].current_time = clock,
            !.threads[t].reminder_id = Len(app.reminders) + 1,
            !.threads[t].pc = IF ok THEN "mark" ELSE AfterSend(app.threads[t])]
    /\ UNCHANGED <<clock, start, customers, daily_reminders, workers, openai_enabled,
                   response_message, notifications, processed, api_response, ever_terminal>>

\* send_daily_reminder, lines 103-107: mark_reminder_sent and
\* self.last_reminder_sent = current_time.
MarkReminderSent(t) ==
    /\ app.threads[t].pc = "mark"
    /\ app' = [app EXCEPT
          !.reminders[app.threads[t].reminder_id].sent = TRUE,
          !.schedulers[app.threads[t].job].last_reminder_sent = app.threads[t].current_time,
          !.threads[t].pc = AfterSend(app.threads[t])]
    /\ UNCHANGED <<clock, start, customers, daily_reminders, workers, openai_enabled,
                   response_message, notifications, processed, api_response, ever_terminal>>

\* The process has just come up, half an hour before the reminder time.
InitServices ==
    /\ clock = REMINDER_TIME - Step
    /\ start = clock - (MaxSteps - 2) * Step
    /\ customers = InitialCustomers
    /\ daily_reminders = <<>>
    /\ workers = [w \in Workers |-> IdleWorker]
    /\ openai_enabled = FALSE
    /\ ever_terminal = {}
    /\ response_message = None
    /\ app = AppStopped
    /\ notifications = {}
    /\ processed = <<>>
    /\ api_response = 0

NextServices ==
    \/ Advance
    \/ StartApp
    \/ StopApp
    \/ \E t \in ThreadIds : MessageLoop(t)
    \/ \E t \in ThreadIds : SetupSchedule(t)
    \/ \E t \in ThreadIds : SchedulerLoop(t)
    \/ \E t \in ThreadIds : SendDailyReminder(t)
    \/ \E t \in ThreadIds : MarkReminderSent(t)

SpecServices == InitServices /\ [][NextServices]_vars

(***************************************************************************)
(* One ReminderScheduler instance at work: the application has been        *)
(* started once, its job is registered and its scheduler loop runs; the    *)
(* instance has sent nothing yet or sent the reminder of the day before.   *)
(* Requests to /api/test-reminder arrive beside the loop.                  *)
(***************************************************************************)
InitScheduler ==
    /\ clock = DayMinutes + REMINDER_TIME - Step
    /\ start = clock - (MaxSteps - 2) * Step
    /\ customers = InitialCustomers
    /\ daily_reminders = <<>>
    /\ workers = [w \in Workers |-> IdleWorker]
    /\ openai_enabled = FALSE
    /\ ever_terminal = {}
    /\ response_message = None
    /\ \E last \in {NULL, REMINDER_TIME} :
         app = [AppStopped EXCEPT
                  !.app_running = TRUE,
                  !.schedulers = <<[last_reminder_sent |-> last]>>,
                  !.jobs = <<1>>,
                  !.threads = <<[NewThread("start_scheduler", 0) EXCEPT !.pc = "loop"]>>,
                  !.reminders = IF last = NULL THEN <<>>
                                ELSE <<[scheduled_time |-> last, sent |-> TRUE]>>]
    /\ notifications = {}
    /\ processed = <<>>
    /\ api_response = 0

NextScheduler ==
    \/ Advance
    \/ TestReminder
    \/ \E t \in ThreadIds : SchedulerLoop(t)
    \/ \E t \in ThreadIds : SendDailyReminder(t)
    \/ \E t \in ThreadIds : MarkReminderSent(t)

SpecScheduler == InitScheduler /\ [][NextScheduler]_vars

\* The whole ladder of one record: customer 1's dispatch of 23:30 has left the
\* day's record, no reply comes, and ticks run one after another from midnight.
InitRungs ==
    /\ clock = DayMinutes
    /\ start = clock
    /\ customers = [InitialCustomers EXCEPT ![1].reminder_time = DayMinutes - Step]
    /\ openai_enabled = FALSE
    /\ daily_reminders =
          <<NewDailyReminder(1, 1, 0, DayMinutes - Step, "REMINDER_MESSAGE",
                             DayMinutes - Step)>>
    /\ workers = [w \in Workers |-> IdleWorker]
    /\ ever_terminal = {}
    /\ response_message = None
    /\ app = AppStopped
    /\ notifications = {}
    /\ processed = <<>>
    /\ api_response = 0

SpecRungs == InitRungs /\ [][NextLadder]_vars

(***************************************************************************)
(* Properties.                                                             *)
(***************************************************************************)
RowsWithKey(rows, c, d) ==
    {i \in 1..Len(rows) : rows[i].customer_id = c /\ rows[i].reminder_date = d}

Dates == 0..1

\* Worker w takes the CreateRecord step.
DidCreate(w) ==
    /\ workers[w].kind = "dispatch"
    /\ workers[w].pc = "create"
    /\ (workers'[w].pc # "create" \/ workers'[w].idx # workers[w].idx)

\* Worker w takes the sending branch of EscalateCandidate.
DidSendEscalation(w) ==
    /\ workers[w].kind = "tick"
    /\ workers[w].pc = "check"
    /\ workers'[w].pc = "update"

\* C1: however many dispatch invocations run for a recipient and a date,
\* one after the other or interleaved, no key (recipient, date) ever has two
\* DailyReminder rows, and every invocation that has gone through its
\* creation for the recipient leaves exactly one row with that key.
C1_IdempotentCreation ==
    [][/\ \A c \in CustomerIds, d \in Dates :
             Cardinality(RowsWithKey(daily_reminders', c, d)) <= 1
       /\ \A w \in Workers :
             DidCreate(w) =>
                Cardinality(RowsWithKey(daily_reminders',
                                        workers[w].custs[workers[w].idx],
                                        DateOf(workers[w].current_time))) = 1]_vars

\* C1 witness: an invocation that began when the recipient's record for the
\* date already existed has gone through its own creation for that recipient,
\* and the key still has one row.
C1_Witness ==
    \E w \in Workers :
        /\ workers[w].kind = "dispatch"
        /\ workers[w].pc = "create"
        /\ workers[w].idx = 2
        /\ workers[w].custs[1] \in workers[w].existed
        /\ Cardinality(RowsWithKey(daily_reminders, workers[w].custs[1],
                                   DateOf(workers[w].current_time))) = 1

\* C2: a dispatch invocation that starts when the recipient's record for the
\* date already exists sends that recipient no reminder message.
C2_RepeatedDispatchNoOp ==
    \A w \in Workers :
        workers[w].kind = "dispatch" => workers[w].existed \cap workers[w].sentTo = {}

\* C3: once the confirmation and the tick that raced on a record have both
\* returned, a confirmed record has next_escalation_time = null and carries
\* the confirmation's message and time.
C3_RaceSafety ==
    (\A w \in Workers : workers[w].kind = "idle") =>
        \A i \in RowIds :
            daily_reminders[i].confirmed =>
                /\ daily_reminders[i].next_escalation_time = NULL
                /\ daily_reminders[i].confirmation_message # NoText
                /\ daily_reminders[i].confirmation_time # NULL

\* C4: a tick that starts after a record has been Confirmed or GaveUp sends no
\* escalation for that record (and so never updates it).
C4_TerminalStability ==
    [][\A w \in Workers :
          DidSendEscalation(w) =>
             workers[w].cands[workers[w].idx].id \notin workers[w].terminal_at_start]_vars

\* C5: in every step each record's escalation_level stays or grows by exactly
\* one and lies in 0..4, and no escalation message above level 4 is sent.
C5_LadderMonotonic ==
    [][/\ \A i \in RowIds :
             /\ daily_reminders'[i].escalation_level \in 0..MaxEscalationLevel
             /\ \/ daily_reminders'[i].escalation_level = daily_reminders[i].escalation_level
                \/ daily_reminders'[i].escalation_level = daily_reminders[i].escalation_level + 1
       /\ \A w \in Workers : workers'[w].sent_message.level <= MaxEscalationLevel]_vars

\* C6: in every state, a record's next_escalation_time is null exactly when the
\* record is terminal (confirmed, ladder exhausted, or past the cutoff).
C6_NextTimeNullIffTerminal ==
    \A i \in RowIds :
        (daily_reminders[i].next_escalation_time = NULL) <=> Terminal(daily_reminders[i], clock)

\* C7: no step turns a record's confirmed field from true to false.
C7_ConfirmedNeverReverts ==
    [][\A i \in RowIds : daily_reminders[i].confirmed => daily_reminders'[i].confirmed]_vars

\* C8: confirmation_time changes only from null, and only in a step that
\* leaves the record confirmed.
C8_ConfirmationTimeOnce ==
    [][\A i \in RowIds :
          daily_reminders'[i].confirmation_time # daily_reminders[i].confirmation_time =>
             /\ daily_reminders[i].confirmation_time = NULL
             /\ daily_reminders'[i].confirmed]_vars

\* A record nobody replied to whose ladder is on the schedule of scenario C:
\* level k reached through escalations at T+30, ..., T+30k, and now = T+30(k+1).
OnSchedule(r, now) ==
    /\ ~r.confirmed
    /\ r.confirmation_message = NoText
    /\ r.escalation_level < MaxEscalationLevel
    /\ now = r.created_at + EscalationMinutes * (r.escalation_level + 1)
    /\ Len(r.escalation_messages_sent) = r.escalation_level
    /\ \A j \in 1..Len(r.escalation_messages_sent) :
          /\ r.escalation_messages_sent[j].level = j
          /\ r.escalation_messages_sent[j].timestamp = r.created_at + EscalationMinutes * j

\* C9: a tick at T+30(k+1) takes up the record that is on schedule at level k
\* (k = 0..3), and no escalation is sent for a record created more than two
\* hours ago.
C9_ScenarioC ==
    [][\A w \in Workers :
          /\ (workers[w].kind = "idle" /\ workers'[w].kind = "tick") =>
                \A i \in RowIds :
                    OnSchedule(daily_reminders[i], clock) =>
                        \E j \in 1..Len(workers'[w].cands) : workers'[w].cands[j].id = i
          /\ DidSendEscalation(w) =>
                clock - workers[w].cands[workers[w].idx].created_at <= CutoffHours * 60]_vars

\* C10: the row a dispatch creates has escalation_level 0, confirmed false,
\* message_sent the reminder text, and next_escalation_time 30 minutes after
\* the dispatch's clock reading.
C10_DispatchInitialisation ==
    [][\A w \in Workers :
          (DidCreate(w) /\ Len(daily_reminders') = Len(daily_reminders) + 1) =>
             LET r == daily_reminders'[Len(daily_reminders')]
             IN /\ r.escalation_level = 0
                /\ ~r.confirmed
                /\ r.message_sent = workers[w].reminder_message
                /\ r.next_escalation_time = workers[w].current_time + EscalationMinutes]_vars

\* Worker w takes the RecordEscalation step.
DidRecordEscalation(w) ==
    /\ workers[w].kind = "tick"
    /\ workers[w].pc = "update"
    /\ workers'[w].pc # "update"

\* Worker w starts a tick.
DidStartTick(w) ==
    /\ workers[w].kind = "idle"
    /\ workers'[w].kind = "tick"

\* A record nobody replied to that is still at level 0 half an hour or more
\* after its dispatch, inside the two-hour cutoff.
FirstEscalationDue(r, now) ==
    /\ ~r.confirmed
    /\ r.confirmation_message = NoText
    /\ r.escalation_level = 0
    /\ now >= r.created_at + EscalationMinutes
    /\ now - r.created_at <= CutoffHours * 60

\* C11: a tick that starts half an hour or more after the dispatch, with no
\* reply, takes up the level-0 record; the update for a level-0 candidate
\* leaves the record at level 1 with next_escalation_time 30 minutes after the
\* send.
C11_ScenarioA ==
    [][\A w \in Workers :
          /\ DidStartTick(w) =>
                \A i \in RowIds :
                    FirstEscalationDue(daily_reminders[i], clock) =>
                        \E j \in 1..Len(workers'[w].cands) : workers'[w].cands[j].id = i
          /\ (DidRecordEscalation(w) /\ workers[w].cands[workers[w].idx].escalation_level = 0) =>
                LET id == workers[w].cands[workers[w].idx].id
                IN /\ daily_reminders'[id].escalation_level = 1
                   /\ daily_reminders'[id].next_escalation_time = workers[w].next_time]_vars

\* Worker w takes the RecordConfirmation step.
DidRecordConfirmation(w) ==
    /\ workers[w].kind = "inbound"
    /\ workers[w].pc = "analyze"
    /\ workers'[w].kind = "idle"

\* The rows the inbound handler of worker w is about.
RowsOfReply(w) ==
    {i \in RowIds : /\ daily_reminders[i].customer_id = workers[w].customer_id
                    /\ daily_reminders[i].reminder_date = workers[w].today}

\* C12: when the handler's analysis says confirmed, the record afterwards has
\* confirmed = true, confirmation_time = now, confirmation_message = the
\* inbound text and next_escalation_time = null, and the handler returns the
\* reply text.
C12_ConfirmationEffect ==
    [][\A w \in Workers :
          DidRecordConfirmation(w) =>
             \A i \in RowsOfReply(w) :
                daily_reminders'[i].confirmed =>
                   /\ daily_reminders'[i].confirmation_time = clock
                   /\ daily_reminders'[i].confirmation_message = workers[w].text
                   /\ daily_reminders'[i].next_escalation_time = NULL
                   /\ response_message' # None]_vars

\* Worker w's handler has passed the early returns of _process_confirmation.
DidStartReply(w) ==
    /\ workers[w].kind = "idle"
    /\ workers'[w].kind = "inbound"

\* C13: the inbound handler goes on to its analysis and UPDATE only for an
\* active recipient whose record for today exists and is unconfirmed; for any
\* other reply it returns at once and changes nothing.
C13_NotApplicableChangesNothing ==
    [][\A w \in Workers :
          DidStartReply(w) =>
             LET c == workers'[w].customer_id
             IN /\ customers[c].is_active
                /\ \E i \in RowIds :
                      /\ daily_reminders[i].customer_id = c
                      /\ daily_reminders[i].reminder_date = DateOf(clock)
                      /\ ~daily_reminders[i].confirmed]_vars

\* C14: a reply that the analysis can only take as missed or unclear is
\* recorded on today's record and leaves it unconfirmed, with
\* escalation_level, the escalation history and next_escalation_time as they
\* were; a record that was unconfirmed is selected and stopped by the ticks
\* exactly as before the reply.
C14_MissedReplyKeepsTimer ==
    [][\A w \in Workers :
          (DidRecordConfirmation(w) /\ analyze_confirmation(workers[w].text) = {FALSE}) =>
             \A i \in RowsOfReply(w) :
                LET old == daily_reminders[i]
                    new == daily_reminders'[i]
                IN /\ ~new.confirmed
                   /\ new.confirmation_message = workers[w].text
                   /\ new.escalation_level = old.escalation_level
                   /\ new.escalation_messages_sent = old.escalation_messages_sent
                   /\ new.next_escalation_time = old.next_escalation_time
                   /\ ~old.confirmed =>
                         /\ NeedsEscalation(new, clock) <=> NeedsEscalation(old, clock)
                         /\ should_stop_escalating(CandidateRow(new), clock)
                               <=> should_stop_escalating(CandidateRow(old), clock)]_vars

\* C14 witness: a missed or unclear reply has been written on a record that a
\* tick had escalated, and the record still has its level and its timer.
C14_Witness ==
    \E i \in RowIds :
        /\ ~daily_reminders[i].confirmed
        /\ daily_reminders[i].confirmation_message \in {<<"n", "o">>, <<"h", "i">>}
        /\ daily_reminders[i].escalation_level = 1
        /\ daily_reminders[i].next_escalation_time # NULL
        /\ daily_reminders[i].confirmation_time >=
              daily_reminders[i].escalation_messages_sent[1].timestamp

\* Worker w's tick moves past a candidate that the stop check rejects.
DidStopEscalating(w) ==
    /\ workers[w].kind = "tick"
    /\ workers[w].pc = "check"
    /\ workers[w].idx <= Len(workers[w].cands)
    /\ should_stop_escalating(workers[w].cands[workers[w].idx], clock)
    /\ workers'[w].idx = workers[w].idx + 1

\* C15: for a candidate that is confirmed, at level 4 or more, or more than
\* two hours old, the tick sends nothing, leaves level and history as they
\* were, and leaves the record with next_escalation_time = null.
C15_StopConditions ==
    [][\A w \in Workers :
          DidStopEscalating(w) =>
             LET id == workers[w].cands[workers[w].idx].id
             IN /\ workers'[w].sent_message = NoMessage
                /\ daily_reminders'[id].escalation_level = daily_reminders[id].escalation_level
                /\ daily_reminders'[id].escalation_messages_sent =
                      daily_reminders[id].escalation_messages_sent
                /\ daily_reminders'[id].next_escalation_time = NULL]_vars

C17_LastRung ==
    [][\A w \in Workers :
          (DidRecordEscalation(w) /\ workers[w].cands[workers[w].idx].escalation_level = 3) =>
             LET id == workers[w].cands[workers[w].idx].id
             IN /\ daily_reminders'[id].escalation_level = MaxEscalationLevel
                /\ daily_reminders'[id].next_escalation_time = NULL]_vars

\* Worker w's tick moves past a candidate that passed the stop check without
\* recording an escalation: the gateway send failed.
DidFailEscalation(w) ==
    /\ workers[w].kind = "tick"
    /\ workers[w].pc = "check"
    /\ workers[w].idx <= Len(workers[w].cands)
    /\ ~should_stop_escalating(workers[w].cands[workers[w].idx], clock)
    /\ workers'[w].idx # workers[w].idx

\* C18: a failed escalation send changes no record, leaves the record selected
\* by the query if it was, and the tick goes on with its next candidate.
C18_EscalationSendFailure ==
    [][\A w \in Workers :
          DidFailEscalation(w) =>
             LET id == workers[w].cands[workers[w].idx].id
             IN /\ daily_reminders' = daily_reminders
                /\ NeedsEscalation(daily_reminders[id], clock) =>
                      NeedsEscalation(daily_reminders'[id], clock)
                /\ workers'[w].kind = "tick"
                /\ workers'[w].pc = "check"
                /\ workers'[w].cands = workers[w].cands
                /\ workers'[w].idx = workers[w].idx + 1]_vars

\* C18 witness: the send for the first of two candidates failed (its record
\* was never escalated) and the tick has sent for the second.
C18_Witness ==
    \E w \in Workers :
        /\ workers[w].kind = "tick"
        /\ Len(workers[w].cands) = 2
        /\ workers[w].idx = 2
        /\ workers[w].pc = "update"
        /\ ~should_stop_escalating(workers[w].cands[1], clock)
        /\ daily_reminders[workers[w].cands[1].id].escalation_messages_sent = <<>>
        /\ NeedsEscalation(daily_reminders[workers[w].cands[1].id], clock)

\* The customers of the list that worker w's dispatch holds.
CustomersOf(w) == {workers[w].custs[k] : k \in 1..Len(workers[w].custs)}

\* C19: a recipient whose reminder send failed has, once the dispatch has gone
\* through its creation, a record for the day at level 0 with
\* next_escalation_time set; when the dispatch ends every recipient of its
\* list has a record.
C19_DispatchSendFailure ==
    [][\A w \in Workers :
          DidCreate(w) =>
             LET c == workers[w].custs[workers[w].idx]
                 d == DateOf(workers[w].current_time)
             IN /\ c \notin workers[w].sentTo =>
                      \E i \in RowsWithKey(daily_reminders', c, d) :
                          /\ daily_reminders'[i].escalation_level = 0
                          /\ daily_reminders'[i].next_escalation_time # NULL
                /\ workers[w].idx = Len(workers[w].custs) =>
                      \A x \in CustomersOf(w) : RowsWithKey(daily_reminders', x, d) # {}]_vars

\* C20: a dispatch sends to and creates records for only the active customers
\* whose reminder_time is the time of the dispatch.
C20_DispatchTargeting ==
    \A w \in Workers :
        (workers[w].kind = "dispatch" /\ workers[w].pc \in {"send", "create"}) =>
            \A c \in CustomersOf(w) :
                /\ customers[c].is_active
                /\ customers[c].reminder_time = HHMM(workers[w].current_time)

\* C21: no step confirms or rewrites the confirmation fields of a record that
\* is in GaveUp, and no step takes a confirmed record to GaveUp.
C21_GaveUpConfirmedExclusive ==
    [][\A i \in RowIds :
          /\ GaveUp(daily_reminders[i], clock) =>
                /\ ~daily_reminders'[i].confirmed
                /\ daily_reminders'[i].confirmation_message =
                      daily_reminders[i].confirmation_message
                /\ daily_reminders'[i].confirmation_time = daily_reminders[i].confirmation_time
          /\ daily_reminders[i].confirmed => ~GaveUp(daily_reminders'[i], clock')]_vars


\* A handler of POST /api/customers that returns in this step from its INSERT.
DidInsert(w) ==
    /\ workers[w].kind = "add"
    /\ workers'[w].kind = "idle"

\* C22: no two rows of customers ever share a phone, and an add whose phone is
\* on a row, active or not, when it writes answers 409 (DuplicatePhone) and
\* leaves the table as it was.
C22_PhoneUniqueness ==
    [][/\ \A c, d \in DOMAIN customers' :
             c # d => customers'[c].phone_number # customers'[d].phone_number
       /\ \A w \in Workers :
             (DidInsert(w) /\ get_customer_by_phone(workers[w].phone_number) # {}) =>
                /\ api_response' = 409
                /\ customers' = customers]_vars


\* A phone of 10 to 15 digits with an optional leading '+'.
IsPhone(p) ==
    LET d == IF p # <<>> /\ Head(p) = "+" THEN Tail(p) ELSE p
    IN Len(d) \in 10..15 /\ \A k \in 1..Len(d) : d[k] \in Digits

\* A time HH:MM within 00:00..23:59.
IsTime(t) ==
    /\ Len(t) = 5
    /\ t[3] = ":"
    /\ \/ t[1] \in {"0", "1"} /\ t[2] \in Digits
       \/ t[1] = "2" /\ t[2] \in {"0", "1", "2", "3"}
    /\ t[4] \in {"0", "1", "2", "3", "4", "5"}
    /\ t[5] \in Digits

\* C23: the directory accepts only well-formed input: every phone and every
\* reminder time that an add has accepted or that a row holds is a phone of 10
\* to 15 digits with an optional '+' and a time HH:MM within 00:00..23:59.
C23_DirectoryValidation ==
    /\ \A c \in CustomerIds :
          /\ IsPhone(customers[c].phone_number)
          /\ IsTime(customers[c].reminder_time)
    /\ \A w \in Workers :
          workers[w].kind = "add" =>
             /\ IsPhone(workers[w].phone_number)
             /\ IsTime(workers[w].reminder_time)


Elems(seq) == {seq[k] : k \in 1..Len(seq)}

\* C24: no step removes a row of customers, and a delete of an existing id
\* clears is_active and nothing else of the row; after it the customer is not
\* in the active list nor in the list of its dispatch slot, and is still in the
\* full list and found by its phone.
C24_SoftDeleteOnly ==
    [][/\ DOMAIN customers \subseteq DOMAIN customers'
       /\ \A c \in CustomerIds :
             DeleteCustomer(c) =>
                /\ ~customers'[c].is_active
                /\ \A f \in DOMAIN customers[c] \ {"is_active"} :
                      customers'[c][f] = customers[c][f]
                /\ c \notin Elems(get_customers)'
                /\ c \notin Elems(get_customers_by_reminder_time(customers[c].reminder_time))'
                /\ c \in Elems(get_customers_all)'
                /\ c \in get_customer_by_phone(customers[c].phone_number)']_vars

\* A deleted customer beside an active one.
C24_Witness ==
    /\ api_response = 200
    /\ \E c, d \in CustomerIds :
          /\ ~customers[c].is_active
          /\ customers[d].is_active
          /\ c \notin Elems(get_customers)
          /\ c \in Elems(get_customers_all)


\* C25: an update of an existing id changes, on that row, only fields that the
\* body carries, sets each of them to the value carried, and leaves every
\* other row alone; an update or delete of an id without a row answers 404
\* and changes nothing.
C25_PartialUpdate ==
    [][\A c \in RequestIds : \A data \in UpdateBodies :
          UpdateCustomer(c, data) =>
             IF c \in CustomerIds
             THEN /\ DOMAIN customers' = DOMAIN customers
                  /\ \A d \in CustomerIds \ {c} : customers'[d] = customers[d]
                  /\ \A f \in DOMAIN customers[c] \ DOMAIN data :
                        customers'[c][f] = customers[c][f]
                  /\ api_response' = 200 =>
                        \A f \in DOMAIN data : customers'[c][f] = data[f]
                  /\ api_response' # 200 => customers' = customers
             ELSE /\ customers' = customers
                  /\ api_response' \in {400, 404}]_vars

\* An update of the name alone has been applied to a row whose time and
\* activity differ from the column defaults.
C25_Witness ==
    /\ api_response = 200
    /\ \E c \in CustomerIds :
          /\ customers[c].name = <<"D">>
          /\ ~customers[c].is_active
          /\ customers[c].reminder_time = <<"9", ":", "3", "0">>


\* C26: a message with content from the phone of an active customer whose
\* record of today is unconfirmed goes to the analysis of the reply, whoever
\* the customer is; a message from a phone without a customer changes no daily
\* reminder and leaves the handler idle.
C26_InboundRouting ==
    [][\A w \in Workers :
          (workers[w].kind = "webhook" /\ workers'[w] # workers[w] /\ workers[w].text # NoText) =>
             /\ \A c \in get_customer_by_phone(workers[w].sender) :
                   (/\ customers[c].is_active
                    /\ \E i \in get_daily_reminder(c, DateOf(clock)) :
                          ~daily_reminders[i].confirmed) =>
                      /\ workers'[w].kind = "inbound"
                      /\ workers'[w].customer_id = c
                      /\ workers'[w].text = workers[w].text
             /\ get_customer_by_phone(workers[w].sender) = {} =>
                   /\ daily_reminders' = daily_reminders
                   /\ workers'[w] = IdleWorker]_vars


\* C27: a handler whose call of the text-generation collaborator was disabled,
\* failed or timed out goes on with the fallback text: the dispatcher holds the
\* default reminder message for its sends, the tick has sent the template of
\* the level it asked for, a level of 1..4; the text is never empty.
C27_GenerationFallback ==
    \A w \in Workers :
        workers[w].generation \in Failures \cup {"disabled"} =>
           /\ workers[w].kind \in {"dispatch", "tick"}
           /\ workers[w].kind = "dispatch" =>
                 /\ workers[w].pc \in {"send", "create"}
                 /\ workers[w].reminder_message = "REMINDER_MESSAGE"
                 /\ workers[w].reminder_message # ""
           /\ workers[w].kind = "tick" =>
                 /\ workers[w].pc = "update"
                 /\ workers[w].sent_message.text = "template"
                 /\ workers[w].sent_message.level \in 1..MaxEscalationLevel
                 /\ workers[w].sent_message.level =
                       workers[w].cands[workers[w].idx].escalation_level + 1

\* The collaborator is enabled; one handler sends reminders after an error of
\* the collaborator while another has escalated after a timeout.
C27_Witness ==
    /\ openai_enabled
    /\ \E w, v \in Workers :
          /\ workers[w].kind = "tick"
          /\ workers[w].generation = "timeout"
          /\ workers[v].kind = "dispatch"
          /\ workers[v].generation = "error"


\* An output of the collaborator that is a JSON object with a boolean
\* confirmed and a response.
WellFormed(output) ==
    /\ output.kind = "object"
    /\ DOMAIN output.body = {"confirmed", "response"}
    /\ output.body["confirmed"] \in BOOLEAN

\* C28: when the collaborator is enabled and its call fails, times out or
\* returns something that is not a well-formed {confirmed, response} object,
\* the pair the classifier returns is the pair of the keyword match on the
\* same text.
C28_ClassifierFallback ==
    \A w \in Workers :
        (/\ workers[w].kind = "classify"
         /\ openai_enabled
         /\ ~WellFormed(workers[w].ai_output)) =>
           workers[w].analysis = template_analysis(workers[w].text)


\* A handler that runs the statistics query in this step.
DidGetStats(w) ==
    /\ workers[w].kind = "idle"
    /\ workers'[w].kind = "stats"

\* C29: the statistics of a window count the daily reminders whose date lies
\* in the window: total is their number and equals confirmed + pending,
\* confirmed is the number of them with confirmed set, and the rate is
\* confirmed / total in percent, 0 for an empty window.
C29_ConfirmationStats ==
    [][\A w \in Workers :
          DidGetStats(w) =>
             LET s == workers'[w].stats
                 window == {i \in RowIds : daily_reminders[i].reminder_date >=
                                              DateOf(clock) - workers'[w].days_back}
             IN /\ s.total = Cardinality(window)
                /\ s.total = s.confirmed + s.pending
                /\ s.confirmed = Cardinality({i \in window : daily_reminders[i].confirmed})
                /\ s.total = 0 => s.confirmation_rate[1] = 0
                /\ s.total > 0 =>
                      s.confirmation_rate[1] * s.total =
                         s.confirmed * 100 * s.confirmation_rate[2]]_vars

\* On day 1 one handler holds the statistics of two days, one record of two
\* confirmed, and another those of day 1 alone.
C29_Witness ==
    \E w, v \in Workers :
        /\ workers[w].kind = "stats"
        /\ workers[w].stats.total = 2
        /\ workers[w].stats.confirmed = 1
        /\ workers[v].kind = "stats"
        /\ workers[v].days_back = 0
        /\ workers[v].stats.total = 1
        /\ Len(daily_reminders) = 2


\* The polling loop has done with a notification in this step.
DidDelete(w) ==
    /\ workers[w].kind = "poll"
    /\ workers[w].pc = "delete"
    /\ workers'[w].pc # "delete"

\* C30: once the polling loop has dealt with a notification, whatever its
\* sender, its content and the fate of the reply, the notification is gone
\* from the gateway's queue, and the loop passes over no notification twice.
C30_InboundAcknowledgement ==
    [][/\ \A w \in Workers :
             DidDelete(w) =>
                \A n \in notifications' : n.receiptId # workers[w].receiptId
       /\ \A id \in DOMAIN processed' : processed'[id] <= 1]_vars


\* The escalation messages of a level that the gateway accepted for a record:
\* those recorded in the history, and those a tick has sent and is about to
\* record.
SuccessfulSends(id, level) ==
    Cardinality({k \in DOMAIN daily_reminders[id].escalation_messages_sent :
                    daily_reminders[id].escalation_messages_sent[k].level = level})
    + Cardinality({w \in Workers :
                    /\ workers[w].kind = "tick"
                    /\ workers[w].pc = "update"
                    /\ workers[w].cands[workers[w].idx].id = id
                    /\ workers[w].cands[workers[w].idx].escalation_level + 1 = level})

C32_KeywordClassification ==
    \A w \in Workers :
        workers[w].kind = "classify" =>
            LET text == message_lower(workers[w].text)
                result == workers[w].analysis
            IN /\ text \in confirm_patterns =>
                     result = [confirmed |-> TRUE, reply |-> "confirm_reply"]
               /\ text \in missed_patterns =>
                     result = [confirmed |-> FALSE, reply |-> "missed_reply"]
               /\ (\A p \in confirm_patterns \cup missed_patterns : ~Contains(p, text)) =>
                     result = [confirmed |-> FALSE, reply |-> "unclear_reply"]


\* C33: the entry that a tick appends to the escalation history of a record
\* holds, as its message, the text the tick sent to the recipient for that
\* level, also when the collaborator writes the texts and writes a different
\* one at each call.
C33_HistoryHoldsSentText ==
    [][\A w \in Workers :
          DidRecordEscalation(w) =>
             LET id == workers[w].cands[workers[w].idx].id
                 h == daily_reminders'[id].escalation_messages_sent
             IN /\ Len(h) > 0
                /\ h[Len(h)].message = workers[w].sent_message]_vars


\* C34: in every reachable state the escalation history of a record holds
\* exactly one entry for each level 1..escalation_level, in increasing order
\* of level, and no other entry.
C34_HistoryMatchesLevel ==
    \A id \in RowIds :
        LET h == daily_reminders[id].escalation_messages_sent
        IN /\ Len(h) = daily_reminders[id].escalation_level
           /\ \A k \in DOMAIN h : h[k].level = k


\* C35: at any instant between the dispatch of a record and its cutoff, a
\* reply of the record's recipient is looked up under the date key the
\* dispatcher stored the record with: while the record is unconfirmed the
\* handler finds it and goes on to the analysis for that date.
C35_SameDayResolution ==
    \A i \in RowIds :
        LET r == daily_reminders[i]
        IN (/\ ~r.confirmed
            /\ r.created_at <= clock
            /\ clock <= r.created_at + CutoffHours * 60) =>
              /\ utc_date(clock) = r.reminder_date
              /\ \A text \in Texts :
                    LET h == ConfirmationLookup(customers[r.customer_id].phone_number, text)
                    IN h.kind = "inbound" /\ h.today = r.reminder_date


\* C36: a dispatch evaluated during the minute of the day that an accepted
\* reminder_time names selects every active recipient stored with that value
\* and leaves each of them with the day's record.
C36_AcceptedTimesDispatched ==
    [][\A w \in Workers :
          (/\ workers[w].kind = "slot"
           /\ workers'[w].kind = "idle"
           /\ validate_reminder_time(workers[w].reminder_time)
           /\ HHMM(workers[w].current_time) = MinuteOfDay(workers[w].reminder_time)) =>
             \A c \in CustomerIds :
                (customers[c].is_active
                 /\ customers[c].reminder_time = workers[w].reminder_time) =>
                   /\ \E k \in DOMAIN workers[w].custs : workers[w].custs[k] = c
                   /\ \E i \in DOMAIN daily_reminders' :
                         /\ daily_reminders'[i].customer_id = c
                         /\ daily_reminders'[i].reminder_date =
                               DateOf(workers[w].current_time)]_vars


\* C37: once a recipient is soft-deleted, a tick that starts selects none of
\* the recipient's records, and no tick sends the recipient an escalation
\* message, even for a record that is unconfirmed and in the middle of its
\* ladder.
C37_NoSendAfterDelete ==
    [][\A w \in Workers :
          /\ DidStartTick(w) =>
                \A k \in DOMAIN workers'[w].cands :
                    customers[workers'[w].cands[k].customer_id].is_active
          /\ DidSendEscalation(w) =>
                customers[workers[w].cands[workers[w].idx].customer_id].is_active]_vars


\* The reminders of a day that the gateway accepted: rows marked sent, and
\* sends a thread has made and is about to mark.
SuccessfulReminders(date) ==
    Cardinality({k \in DOMAIN app.reminders :
                    /\ DateOf(app.reminders[k].scheduled_time) = date
                    /\ \/ app.reminders[k].sent
                       \/ \E t \in ThreadIds : /\ app.threads[t].pc = "mark"
                                               /\ app.threads[t].reminder_id = k})

\* C38: whatever the sequence of starts and stops, at most one
\* message-processing loop and at most one scheduler loop are alive, at most
\* one reminder-check job is registered, and the day's reminder is not sent
\* twice.
C38_ServiceLifecycle ==
    /\ Cardinality(Alive("start_message_processing")) <= 1
    /\ Cardinality(Alive("start_scheduler")) <= 1
    /\ Len(app.jobs) <= 1
    /\ SuccessfulReminders(DateOf(clock)) <= 1


\* The scheduler loop's thread t comes out of send_daily_reminder with the
\* message accepted by the gateway, or refused.
ScheduledSendSucceeds(t) ==
    /\ app.threads[t].target = "start_scheduler"
    /\ app.threads[t].pc = "send"
    /\ app'.threads[t].pc = "mark"

ScheduledSendFails(t) ==
    /\ app.threads[t].target = "start_scheduler"
    /\ app.threads[t].pc = "send"
    /\ app'.threads[t].pc = "loop"

\* C39: within one ReminderScheduler instance, a send made by
\* check_and_send_reminder succeeds only on a day on which no reminder,
\* scheduled or test, has been sent successfully yet; a failed send leaves
\* last_reminder_sent as it was, so that a check inside the window around the
\* reminder time, on a day without a successful send, tries again.
C39_SchedulerGating ==
    [][\A t \in ThreadIds :
          /\ ScheduledSendSucceeds(t) => SuccessfulReminders(DateOf(clock)) = 0
          /\ ScheduledSendFails(t) =>
                /\ app'.schedulers = app.schedulers
                /\ (SuccessfulReminders(DateOf(clock)) = 0 /\ HHMM(clock) = REMINDER_TIME)
                      => should_send_reminder(app'.schedulers[app.threads[t].job], clock)]_vars
====
